---- MODULE Spec2Model ----
(***************************************************************************)
(* BrightScriptDebugSession (src/src/BuiltinCompletionItems.ts, lines      *)
(* 38-720): the breakpoint store, the launch pipeline with entry-point     *)
(* merging and STOP injection, the line correction, the handlers of the    *)
(* adapter's events, and the disconnect, threads, stackTrace, evaluate,    *)
(* variables, continue and step requests.                                  *)
(*                                                                         *)
(* In every specification but SpecPaths and SpecIndex the launch arguments *)
(* carry no debugRootDir, so the two guarded convertBreakpointPaths calls  *)
(* of launchRequest (lines 114, 122) are not taken and every client path   *)
(* is a path under rootDir.  A setBreakpoints request names lines of the   *)
(* file it is about.                                                       *)
(*                                                                         *)
(* Spec is the session of setBreakpoints requests, a launch whose steps    *)
(* all resolve, and suspend events; SpecStore is the session up to the end *)
(* of the injection, with longer setBreakpoints requests, all of them sent *)
(* before the launch.  SpecLaunch is the launch with steps that reject and *)
(* with the compile-errors and close events.  SpecRun, SpecTrace and       *)
(* SpecEval are sessions without setBreakpoints requests: SpecRun has the  *)
(* device's events and the disconnect request, SpecTrace the stackTrace    *)
(* requests, SpecEval the evaluate, continue and step requests.            *)
(* SpecEntry is the search for the entry routine in projects that declare  *)
(* both routines, findInFiles reporting the files in any order.  SpecPaths *)
(* and SpecIndex are the session with paths as strings: rootDir and        *)
(* debugRootDir are folders, the keys of the store are converted between   *)
(* them, and the paths of stack frames are converted to client paths.      *)
(* The for-in loop of convertBreakpointPaths enumerates the keys in the    *)
(* order of their insertion, which the store does not record: the loop     *)
(* takes them in any order.                                                *)
(* SpecThreadsFair is the launch, resolving or rejecting, with threads     *)
(* requests, under weak fairness of the steps the session takes by itself. *)
(* SpecConsole is the session with evaluate requests of the debug console  *)
(* and of expressions named like members of Object.prototype.              *)
(* SpecVariables is the session with evaluate requests for one expression, *)
(* several at a time, and variables requests; SpecStops the session with   *)
(* either value of stopOnEntry, with or without an entry breakpoint, and   *)
(* a cache filled between the stops.                                       *)
(*                                                                         *)
(* RokuAdapter and roku-deploy are used through their calls only: an       *)
(* awaited call resolves or rejects, getVariable answers for the           *)
(* expression it was asked (result.evaluateName is the expression; the     *)
(* result has children in SpecVariables only), getThreads answers with at  *)
(* least one thread, and isAtDebuggerPrompt changes as the adapter sees    *)
(* fit.                                                                    *)
(***************************************************************************)
EXTENDS Integers, Sequences, FiniteSets, TLC

VARIABLES
    launchArgs,               \* this.launchArgs: rootDir (the project), stopOnEntry
    breakpointsByClientPath,  \* function: client path -> sequence of breakpoints
    breakpointIdCounter,
    launchRequestWasCalled,
    entryBreakpoint,
    pc,                       \* position of launchRequest
    inj,                      \* per client path: position of addBreakpointsToFile
    staged,                   \* per staged file: its physical lines
    firstSuspend,             \* closure variable of connectRokuAdapter
    pendingSuspends,          \* suspend handlers awaiting getThreads()
    handledSuspends,          \* suspend handlers that ran to their end
    suspendEvents,            \* suspend events the device has emitted
    continuesSent,            \* rokuAdapter.continue() calls
    stoppedEvents,            \* StoppedEvents sent to the IDE
    variablesCleared,         \* clearState() calls
    outputEvents,             \* OutputEvents sent to the IDE
    requestsReceived,         \* setBreakpoints requests received
    responsesSent,            \* setBreakpoints responses sent
    lastResponse,             \* body.breakpoints of the last setBreakpoints response
    issuedIds,                \* every breakpoint id handed out, in order
    launchResponse,           \* the answer to the launch request: none, ok, error
    steps,                    \* the steps launchRequest has started, in order
    error,                    \* the local `error` of launchRequest: none, close, compile
    shutdownCalled,           \* this.shutdown() was called
    launchResponsesSent,      \* answers sent to the launch request
    compileFailureEvents,     \* CompileFailureEvents sent to the IDE
    closeEvents,              \* close events the adapter has emitted
    rokuAdapter,              \* this.rokuAdapter: undefined, created, connected
    runtimeErrorEvents,       \* runtime-error events the adapter has emitted
    pendingRuntimeErrors,     \* runtime-error handlers awaiting getThreads()
    exceptionStops,           \* StoppedEvents with reason exception sent to the IDE
    cannotContinueEvents,     \* cannot-continue events the adapter has emitted
    terminatedEvents,         \* TerminatedEvents sent to the IDE
    adapterDestroyed,         \* rokuAdapter.destroy() was called
    disconnectPc,             \* position of disconnectRequest
    homePresses,              \* rokuDeploy.pressHomeButton() calls
    disconnectResponses,      \* answers sent to the disconnect request
    stackTraceRequests,       \* stackTrace requests received
    pendingStackTraces,       \* stackTrace requests awaiting getStackTrace()
    stackTraceQueries,        \* rokuAdapter.getStackTrace() calls
    isAtDebuggerPrompt,       \* rokuAdapter.isAtDebuggerPrompt
    stackTraceResponses,      \* the bodies of the stackTrace responses, in order
    evaluateRefIdLookup,      \* function: expression -> reference id
    evaluateRefIdCounter,
    variables,                \* function: reference id -> cached variable
    pendingEvaluates,         \* evaluate requests awaiting getVariable()
    getVariableCalls,         \* rokuAdapter.getVariable() calls
    evaluateRequests,         \* evaluate requests received
    lastAnswer,               \* per expression: the last evaluate response and when it was sent
    resumesForwarded,         \* continue and step requests forwarded to the adapter
    stagingDirPaths,          \* the relative paths of the staged files (<<>>: not loaded)
    writtenFiles,             \* the files addBreakpointStatements wrote, with the breakpoints
    storeAtLaunch,            \* breakpointsByClientPath when launchRequest was called
    lastConversion,           \* the last call of convertDebuggerPathToClient and its result
    threadsRequests,          \* threads requests received
    threadsAtAdapter,         \* threads requests awaiting getRokuAdapter()
    threadsAtDevice,          \* threads requests awaiting getThreads()
    threadsResponses,         \* answers sent to threads requests
    variablesRequests,        \* variables requests received
    pendingVariables,         \* variables requests awaiting getVariable()
    variablesResponses,       \* the bodies of the variables responses, in order
    pendingRepl,              \* repl evaluate requests awaiting rokuAdapter.evaluate()
    replEvaluates,            \* rokuAdapter.evaluate() calls
    replResponses             \* answers sent to repl evaluate requests

vars == <<launchArgs, breakpointsByClientPath, breakpointIdCounter,
          launchRequestWasCalled, entryBreakpoint, pc, inj, staged,
          firstSuspend, pendingSuspends, handledSuspends, suspendEvents,
          continuesSent, stoppedEvents, variablesCleared, outputEvents,
          requestsReceived, responsesSent, lastResponse, issuedIds,
          launchResponse, steps, error, shutdownCalled, launchResponsesSent,
          compileFailureEvents, closeEvents, rokuAdapter, runtimeErrorEvents,
          pendingRuntimeErrors, exceptionStops, cannotContinueEvents,
          terminatedEvents, adapterDestroyed, disconnectPc, homePresses,
          disconnectResponses, stackTraceRequests, pendingStackTraces,
          stackTraceQueries, stackTraceResponses, isAtDebuggerPrompt,
          evaluateRefIdLookup,
          evaluateRefIdCounter, variables, pendingEvaluates,
          getVariableCalls, evaluateRequests, lastAnswer, resumesForwarded,
          stagingDirPaths, writtenFiles, storeAtLaunch, lastConversion,
          threadsRequests, threadsAtAdapter, threadsAtDevice, threadsResponses,
          variablesRequests, pendingVariables, variablesResponses,
          pendingRepl, replEvaluates, replResponses>>

\* the state of the path conversions
pathVars == <<stagingDirPaths, writtenFiles, storeAtLaunch, lastConversion>>

\* the threads and variables requests and the evaluate requests of the console
requestVars == <<threadsRequests, threadsAtAdapter, threadsAtDevice,
                 threadsResponses, variablesRequests, pendingVariables,
                 variablesResponses, pendingRepl, replEvaluates, replResponses>>

----------------------------------------------------------------------------
(* Bounds *)

\* number of lines one setBreakpoints request carries (SpecStore)
MaxReqLen == 2
\* number of lines one setBreakpoints request carries (Spec)
SessionReqLen == 1
\* setBreakpoints requests in one session
MaxRequests == 2
\* suspend events the device emits in one session
MaxSuspends == 2
\* events of one other kind (compile-errors, close, runtime-error,
\* cannot-continue) the device emits in one session
MaxEvents == 1
\* continue and step requests in one session
MaxResumes == 1
\* number of characters after the marker of a truncated device path
MaxSuffixLen == 3

----------------------------------------------------------------------------
(* The project on disk *)

MainPath == "source/main.brs"
LibPath == "source/Lib.BRS"
ScenePath == "components/Scene.xml"

\* the paths the IDE may name in a setBreakpoints request
ClientPaths == {MainPath, LibPath, ScenePath}

\* the .brs files of the project, in the order findInFiles reports them
BrsFiles == <<MainPath, LibPath>>

\* the orders in which findInFiles may report the .brs files
FileOrders == {BrsFiles, <<LibPath, MainPath>>}

Projects == {"main", "none"}

\* projects that declare both entry routines: in one file ("both"), in two
\* files ("split"), main in two files ("mains"), RunUserInterface in two
\* files ("twice")
BothProjects == {"both", "split", "mains", "twice"}

EntryProjects == Projects \union BothProjects

\* the text of a source file, one string per line
FileLines(proj, path) ==
    CASE path = MainPath /\ proj = "main" ->
            <<"sub main()", "print a", "end sub">>
      [] path = MainPath /\ proj = "none" ->
            <<"sub init()", "print a", "end sub">>
      [] path = MainPath /\ proj = "both" ->
            <<"sub RunUserInterface()", "end sub", "Sub Main()">>
      [] path = MainPath /\ proj = "split" ->
            <<"print a", "sub main()", "end sub">>
      [] path = MainPath /\ proj = "mains" ->
            <<"print a", "print a", "sub main()">>
      [] path = MainPath /\ proj = "twice" ->
            <<"sub RunUserInterface()", "sub main()", "end sub">>
      [] path = LibPath /\ proj = "split" ->
            <<"function f()", "Sub RunUserInterface()", "end sub">>
      [] path = LibPath /\ proj = "mains" ->
            <<"Sub Main()", "sub RunUserInterface()", "end sub">>
      [] path = LibPath /\ proj = "twice" ->
            <<"print a", "sub RunUserInterface()", "end sub">>
      [] path = LibPath -> <<"function f()", "return 1", "end function">>
      [] OTHER -> <<"<component>", "</component>">>

extname(path) ==
    CASE path = MainPath -> ".brs"
      [] path = LibPath -> ".BRS"
      [] OTHER -> ".xml"

toLowerCase(s) == IF s = ".BRS" THEN ".brs" ELSE s

----------------------------------------------------------------------------
(* Breakpoints *)

\* entryBreakpoint when none is recorded (undefined)
Undefined == [id |-> -1, line |-> -1, verified |-> FALSE, isEntryBreakpoint |-> FALSE]

\* new Breakpoint(true, lineNumber) with its id assigned
Breakpoint(id, lineNumber) ==
    [id |-> id, line |-> lineNumber, verified |-> TRUE, isEntryBreakpoint |-> FALSE]

\* mutant of MapClientLines: the counter is read but not advanced per breakpoint
MapClientLinesOneId(clientLines, counter) ==
    [i \in 1..Len(clientLines) |-> Breakpoint(counter, clientLines[i])]

\* clientLines.map(...): one breakpoint per requested line, ids counter, counter+1, ...
MapClientLines(clientLines, counter) ==
    [i \in 1..Len(clientLines) |-> Breakpoint(counter + i - 1, clientLines[i])]

Keys(store) == DOMAIN store

\* mutant of Put: the store is replaced by one holding the new list alone
PutAlone(store, clientPath, list) == [p \in {clientPath} |-> list]

\* this.breakpointsByClientPath[clientPath] = list
Put(store, clientPath, list) ==
    [p \in Keys(store) \cup {clientPath} |-> IF p = clientPath THEN list ELSE store[p]]

EmptyStore == [p \in {} |-> <<>>]

\* this.launchArgs before launchRequest
NoArgs == [rootDir |-> "", stopOnEntry |-> FALSE]

----------------------------------------------------------------------------
(* Entry-point merging *)

\* Insert breakpoint b into the list sorted, after every element whose line is
\* not greater (the place a stable sort gives an element pushed last).
RECURSIVE InsertSorted(_, _)
InsertSorted(sorted, b) ==
    IF sorted = <<>> THEN <<b>>
    ELSE IF Head(sorted).line > b.line THEN <<b>> \o sorted
    ELSE <<Head(sorted)>> \o InsertSorted(Tail(sorted), b)

\* breakpoints.sort((a, b) => a.line - b.line): a stable sort by line
RECURSIVE SortByLine(_)
SortByLine(list) ==
    IF list = <<>> THEN <<>>
    ELSE InsertSorted(SortByLine(SubSeq(list, 1, Len(list) - 1)), list[Len(list)])

\* breakpoints.indexOf(bp), 1-based; 0 when absent
IndexOf(list, bp) ==
    IF \E i \in 1..Len(list) : list[i] = bp
    THEN CHOOSE i \in 1..Len(list) : list[i] = bp /\ \A j \in 1..(i - 1) : list[j] # bp
    ELSE 0

\* mutant of Splice: the element before index is removed
SpliceBefore(list, index) ==
    SubSeq(list, 1, index - 2) \o SubSeq(list, index, Len(list))

\* breakpoints.splice(index, 1), index 1-based
Splice(list, index) ==
    SubSeq(list, 1, index - 1) \o SubSeq(list, index + 1, Len(list))

\* does the text of a line match the search term of findInFiles (flags 'ig')?
MatchesTerm(term, text) ==
    CASE term = "sub RunUserInterface\\(" ->
            text \in {"sub RunUserInterface()", "Sub RunUserInterface()"}
      [] term = "sub main\\(" -> text \in {"sub main()", "Sub Main()"}
      [] OTHER -> FALSE

\* the matching lines of one file, in file order
RECURSIVE MatchingLines(_, _)
MatchingLines(term, lines) ==
    IF lines = <<>> THEN <<>>
    ELSE (IF MatchesTerm(term, Head(lines)) THEN <<Head(lines)>> ELSE <<>>)
         \o MatchingLines(term, Tail(lines))

\* findInFiles.find(term, baseProjectPath, /.*\.brs/): one entry per file with a
\* match, keyed by path, holding the matching lines
RECURSIVE FindInFiles(_, _, _)
FindInFiles(term, proj, files) ==
    IF files = <<>> THEN <<>>
    ELSE LET m == MatchingLines(term, FileLines(proj, Head(files)))
         IN (IF m = <<>> THEN <<>> ELSE <<[path |-> Head(files), line |-> m]>>)
            \o FindInFiles(term, proj, Tail(files))

HasKey(obj, path) == \E i \in 1..Len(obj) : obj[i].path = path

Lookup(obj, path) == obj[CHOOSE i \in 1..Len(obj) : obj[i].path = path]

\* mutant of ObjectAssign: b's keys come first
ObjectAssignSecondFirst(a, b) ==
    b \o SelectSeq(a, LAMBDA e : ~HasKey(b, e.path))

\* Object.assign({}, a, b): a's keys in a's order with b's values where b has
\* the key, then b's other keys in b's order
ObjectAssign(a, b) ==
    [i \in 1..Len(a) |-> IF HasKey(b, a[i].path) THEN Lookup(b, a[i].path) ELSE a[i]]
    \o SelectSeq(b, LAMBDA e : ~HasKey(a, e.path))

\* lines 583-587, findInFiles reporting the files in the order given
EntryResultsIn(proj, files) ==
    ObjectAssign(FindInFiles("sub RunUserInterface\\(", proj, files),
                 FindInFiles("sub main\\(", proj, files))

EntryResults(proj) == EntryResultsIn(proj, BrsFiles)

\* mutant of EntryLineNumber: the index of the line is not made 1-based
EntryLineNumberFromZero(lines, entryLine) ==
    (CHOOSE i \in 1..Len(lines) :
        /\ lines[i] = entryLine
        /\ \A j \in 1..(i - 1) : lines[j] # entryLine) - 1

\* the loop of lines 598-604: the first line (1-based) holding entryLine
EntryLineNumber(lines, entryLine) ==
    CHOOSE i \in 1..Len(lines) :
        /\ lines[i] = entryLine
        /\ \A j \in 1..(i - 1) : lines[j] # entryLine

\* mutant of NeighbourOnSameLine: a neighbour one line away counts too
NeighbourOnAdjacentLine(sorted, index) ==
    \/ index > 1 /\ sorted[index - 1].line >= sorted[index].line - 1
    \/ index < Len(sorted) /\ sorted[index + 1].line <= sorted[index].line + 1

\* mutant of NeighbourOnSameLine: the entry breakpoint is always kept
NeighbourNever(sorted, index) == FALSE

\* lines 625-630: does the breakpoint before or after index sit on index's line?
NeighbourOnSameLine(sorted, index) ==
    \/ index > 1 /\ sorted[index - 1].line = sorted[index].line
    \/ index < Len(sorted) /\ sorted[index + 1].line = sorted[index].line

\* The synchronous tail of addEntryBreakpoint (lines 592-634) for an entry found
\* in entryPath: the new store and the new entryBreakpoint.
MergeEntryBreakpoint(store, counter, entryPath, lineNumber) ==
    LET entry == [id |-> counter, line |-> lineNumber + 1, verified |-> TRUE,
                  isEntryBreakpoint |-> TRUE]
        pushed == Append(IF entryPath \in Keys(store) THEN store[entryPath] ELSE <<>>,
                         entry)
        sorted == SortByLine(pushed)
        index == IndexOf(sorted, entry)
        drop == NeighbourOnSameLine(sorted, index)
    IN [store |-> Put(store, entryPath, IF drop THEN Splice(sorted, index) ELSE sorted),
        entryBreakpoint |-> IF drop THEN Undefined ELSE entry]

----------------------------------------------------------------------------
(* STOP injection *)

\* One physical line of a staged file: its text, the spaces appended to it, and
\* the line of the original source it carries (0: it carries none).
StopLine == [txt |-> "STOP", sp |-> 0, src |-> 0]
UndefinedLine == [txt |-> "undefined", sp |-> 0, src |-> 0]
EmptyLine == [txt |-> "", sp |-> 0, src |-> 0]

\* the file as prepublishToStaging copies it
StagedCopy(proj, path) ==
    [i \in 1..Len(FileLines(proj, path)) |->
        [txt |-> FileLines(proj, path)[i], sp |-> 0, src |-> i]]

\* An element of the array `lines`: a string, held as the physical lines it makes
\* when written out, or a hole of the array.
Hole == [hole |-> TRUE, phys |-> <<>>]
Element(phys) == [hole |-> FALSE, phys |-> phys]

\* eol.split(fileContents)
EolSplit(file) == [i \in 1..Len(file) |-> Element(<<file[i]>>)]

\* `${text} `: a space appended to the string, so to its last physical line
AppendSpace(phys) ==
    [phys EXCEPT ![Len(phys)] = [@ EXCEPT !.sp = @ + 1]]

\* lines[lineIndex] = value, lineIndex 0-based; an index past the end leaves holes
ArraySet(lines, lineIndex, value) ==
    IF lineIndex + 1 <= Len(lines)
    THEN [lines EXCEPT ![lineIndex + 1] = value]
    ELSE lines \o [i \in 1..(lineIndex - Len(lines)) |-> Hole] \o <<value>>

\* mutant of InsertStop: the STOP line is spliced in as an element of its own,
\* which moves the elements after it
InsertStopShifting(lines, lineIndex) ==
    SubSeq(lines, 1, lineIndex) \o <<Element(<<StopLine>>)>>
        \o SubSeq(lines, lineIndex + 1, Len(lines))

\* mutant of InsertStop: the STOP line is put after the line
InsertStopAfter(lines, lineIndex) ==
    LET line == IF lineIndex + 1 <= Len(lines) /\ ~lines[lineIndex + 1].hole
                THEN lines[lineIndex + 1].phys
                ELSE <<UndefinedLine>>
    IN ArraySet(lines, lineIndex, Element(AppendSpace(line) \o <<StopLine>>))

\* lines[lineIndex] = `STOP\n${line} ` (lines 563-566)
InsertStop(lines, lineIndex) ==
    LET line == IF lineIndex + 1 <= Len(lines) /\ ~lines[lineIndex + 1].hole
                THEN lines[lineIndex + 1].phys
                ELSE <<UndefinedLine>>
    IN ArraySet(lines, lineIndex, Element(<<StopLine>> \o AppendSpace(line)))

\* the loop of lines 561-567 over breakpoints k, k+1, ...
RECURSIVE InsertStops(_, _, _)
InsertStops(lines, breakpoints, k) ==
    IF k > Len(breakpoints) THEN lines
    ELSE InsertStops(InsertStop(lines, breakpoints[k].line - 1), breakpoints, k + 1)

\* lines.join('\n'), as the physical lines of the written file
RECURSIVE Join(_)
Join(lines) ==
    IF lines = <<>> THEN <<>>
    ELSE (IF Head(lines).hole THEN <<EmptyLine>> ELSE Head(lines).phys)
         \o Join(Tail(lines))

\* addBreakpointsToFile: the content written back to the staged file
InjectedFile(file, breakpoints) == Join(InsertStops(EolSplit(file), breakpoints, 1))

----------------------------------------------------------------------------
(* Line correction *)

\* the loop of lines 666-674 over breakpoints k, k+1, ...
RECURSIVE CorrectLine(_, _, _)
CorrectLine(breakpoints, k, resultLineNumber) ==
    IF k > Len(breakpoints) THEN resultLineNumber
    ELSE IF breakpoints[k].line <= resultLineNumber
         THEN CorrectLine(breakpoints, k + 1, resultLineNumber - 1)
         ELSE resultLineNumber

\* convertDebuggerLineToClientLine, for the client path the debugger path maps to
convertDebuggerLineToClientLine(store, clientPath, debuggerLineNumber) ==
    CorrectLine(IF clientPath \in Keys(store) THEN store[clientPath] ELSE <<>>,
                1, debuggerLineNumber)

----------------------------------------------------------------------------
Init ==
    /\ launchArgs = NoArgs
    /\ breakpointsByClientPath = EmptyStore
    /\ breakpointIdCounter = 0
    /\ launchRequestWasCalled = FALSE
    /\ entryBreakpoint = Undefined
    /\ pc = "idle"
    /\ inj = [p \in ClientPaths |-> "none"]
    /\ staged = [p \in ClientPaths |-> <<>>]
    /\ firstSuspend = FALSE
    /\ pendingSuspends = 0
    /\ handledSuspends = 0
    /\ suspendEvents = 0
    /\ continuesSent = 0
    /\ stoppedEvents = 0
    /\ variablesCleared = 0
    /\ outputEvents = 0
    /\ requestsReceived = 0
    /\ responsesSent = 0
    /\ lastResponse = <<>>
    /\ issuedIds = <<>>
    /\ launchResponse = "none"
    /\ steps = <<>>
    /\ error = "none"
    /\ shutdownCalled = FALSE
    /\ launchResponsesSent = 0
    /\ compileFailureEvents = 0
    /\ closeEvents = 0
    /\ rokuAdapter = "undefined"
    /\ runtimeErrorEvents = 0
    /\ pendingRuntimeErrors = 0
    /\ exceptionStops = 0
    /\ cannotContinueEvents = 0
    /\ terminatedEvents = 0
    /\ adapterDestroyed = FALSE
    /\ disconnectPc = "none"
    /\ homePresses = 0
    /\ disconnectResponses = 0
    /\ stackTraceRequests = 0
    /\ pendingStackTraces = 0
    /\ stackTraceQueries = 0
    /\ stackTraceResponses = <<>>
    /\ isAtDebuggerPrompt = FALSE
    /\ evaluateRefIdLookup = [e \in {} |-> 0]
    /\ evaluateRefIdCounter = 1
    /\ variables = [r \in {} |-> <<>>]
    /\ pendingEvaluates = <<>>
    /\ getVariableCalls = 0
    /\ evaluateRequests = 0
    /\ lastAnswer = [e \in {} |-> <<>>]
    /\ resumesForwarded = 0
    /\ stagingDirPaths = <<>>
    /\ writtenFiles = {}
    /\ storeAtLaunch = EmptyStore
    /\ lastConversion = <<>>
    /\ threadsRequests = 0
    /\ threadsAtAdapter = 0
    /\ threadsAtDevice = 0
    /\ threadsResponses = 0
    /\ variablesRequests = 0
    /\ pendingVariables = <<>>
    /\ variablesResponses = <<>>
    /\ pendingRepl = 0
    /\ replEvaluates = 0
    /\ replResponses = 0

----------------------------------------------------------------------------
(* Requests of the IDE *)

\* the lines arrays of at most n lines a setBreakpoints request for a path may
\* carry
RequestLines(clientPath, n) ==
    UNION {[1..k -> 1..Len(FileLines("main", clientPath))] : k \in 0..n}

\* mutant of BreakpointsRefused: the check of line 215 is missing
BreakpointsNeverRefused == FALSE

\* line 215: breakpoints are refused once the launch has been requested
BreakpointsRefused == launchRequestWasCalled

\* lines 225, 229: only breakpoints of BrightScript files are accepted
IsBrightScriptFile(clientPath) == toLowerCase(extname(clientPath)) = ".brs"

\* setBreakPointsRequest (lines 212-245) for a request whose normalized path
\* is clientPath, isBrs telling whether its extension is .brs
SetBreakPoints(clientPath, clientLines, isBrs) ==
    /\ requestsReceived < MaxRequests
    /\ requestsReceived' = requestsReceived + 1
    /\ IF BreakpointsRefused
       THEN /\ outputEvents' = outputEvents + 1
            /\ UNCHANGED <<breakpointsByClientPath, breakpointIdCounter,
                           responsesSent, lastResponse, issuedIds>>
       ELSE LET actualBreakpoints ==
                    IF isBrs THEN MapClientLines(clientLines, breakpointIdCounter)
                    ELSE <<>>
            IN /\ breakpointsByClientPath' =
                    IF isBrs
                    THEN Put(breakpointsByClientPath, clientPath, actualBreakpoints)
                    ELSE breakpointsByClientPath
               /\ breakpointIdCounter' = breakpointIdCounter + Len(actualBreakpoints)
               /\ issuedIds' = issuedIds \o
                    [i \in 1..Len(actualBreakpoints) |-> actualBreakpoints[i].id]
               /\ responsesSent' = responsesSent + 1
               /\ lastResponse' = actualBreakpoints
               /\ UNCHANGED outputEvents
    /\ UNCHANGED <<launchArgs, launchRequestWasCalled, entryBreakpoint, pc,
                   inj, staged, firstSuspend, pendingSuspends, handledSuspends,
                   suspendEvents, continuesSent, stoppedEvents, variablesCleared,
                   launchResponse, steps, rokuAdapter, error, shutdownCalled,
                   launchResponsesSent, compileFailureEvents, closeEvents,
                   runtimeErrorEvents, pendingRuntimeErrors, exceptionStops,
                   cannotContinueEvents, terminatedEvents, adapterDestroyed,
                   disconnectPc, homePresses, disconnectResponses,
                   stackTraceRequests, pendingStackTraces, stackTraceQueries,
                   stackTraceResponses, isAtDebuggerPrompt, evaluateRefIdLookup,
                   evaluateRefIdCounter, variables, pendingEvaluates,
                   getVariableCalls, evaluateRequests, lastAnswer, resumesForwarded>>
    /\ UNCHANGED <<pathVars, requestVars>>

\* setBreakPointsRequest (lines 212-245) for a file of the project
SetBreakPointsRequest(clientPath, clientLines) ==
    SetBreakPoints(clientPath, clientLines, IsBrightScriptFile(clientPath))

----------------------------------------------------------------------------
(* launchRequest (lines 98-184), one action per awaited step *)

sessionVars == <<firstSuspend, pendingSuspends, handledSuspends, suspendEvents,
                 continuesSent, stoppedEvents, variablesCleared>>
ideVars == <<outputEvents, requestsReceived, responsesSent, lastResponse>>
storeVars == <<breakpointsByClientPath, breakpointIdCounter, entryBreakpoint,
               issuedIds>>
\* what the catch block of launchRequest and the launch handlers write
catchVars == <<error, shutdownCalled, launchResponsesSent, compileFailureEvents,
               closeEvents>>
\* the runtime-error and cannot-continue handlers, disconnect, stack traces
runVars == <<runtimeErrorEvents, pendingRuntimeErrors, exceptionStops,
             cannotContinueEvents, terminatedEvents, adapterDestroyed,
             disconnectPc, homePresses, disconnectResponses,
             stackTraceRequests, pendingStackTraces, stackTraceQueries,
             stackTraceResponses, isAtDebuggerPrompt>>
\* the evaluation references
evalVars == <<evaluateRefIdLookup, evaluateRefIdCounter, variables,
              pendingEvaluates, getVariableCalls, evaluateRequests, lastAnswer,
              resumesForwarded>>

\* mutant of ShutdownOnError: the catch block does not shut the session down
NoShutdownOnError == FALSE

\* line 178: the catch block calls this.shutdown()
ShutdownOnError == TRUE

\* lines 175-179: the catch block of launchRequest
Catch ==
    /\ launchResponse' = "error"
    /\ launchResponsesSent' = launchResponsesSent + 1
    /\ shutdownCalled' = (shutdownCalled \/ ShutdownOnError)
    /\ pc' = "failed"

\* lines 99-108: up to the await of prepublishToStaging
LaunchRequest(args) ==
    /\ pc = "idle"
    /\ launchRequestWasCalled' = TRUE
    /\ launchArgs' = args
    /\ pc' = "staging"
    /\ steps' = Append(steps, "staging")
    /\ UNCHANGED <<inj, staged, launchResponse, rokuAdapter>>
    /\ UNCHANGED <<storeVars, sessionVars, ideVars, pathVars, requestVars, catchVars, runVars, evalVars>>

\* lines 108-119 and 573, 583-586: the staging folder is filled, and
\* addBreakpointStatements starts addEntryBreakpoint, which searches the project
StagingDone ==
    /\ pc = "staging"
    /\ staged' = [p \in ClientPaths |-> StagedCopy(launchArgs.rootDir, p)]
    /\ pc' = "findEntry"
    /\ steps' = Append(steps, "entry")
    /\ UNCHANGED <<launchArgs, launchRequestWasCalled, inj, launchResponse,
                   rokuAdapter>>
    /\ UNCHANGED <<storeVars, sessionVars, ideVars, pathVars, requestVars, catchVars, runVars, evalVars>>

\* lines 588-591 and 175-179: no entry point, so addEntryBreakpoint throws and
\* launchRequest answers with the error and shuts down
EntryNotFound ==
    /\ pc = "findEntry"
    /\ EntryResults(launchArgs.rootDir) = <<>>
    /\ Catch
    /\ UNCHANGED <<launchArgs, launchRequestWasCalled, inj, staged, steps,
                   rokuAdapter, error, compileFailureEvents, closeEvents>>
    /\ UNCHANGED <<storeVars, sessionVars, ideVars, pathVars, requestVars, runVars, evalVars>>

\* lines 588-634 and 576-579: the entry breakpoint is created and merged, then
\* addBreakpointsToFile starts for every key of the store (each reads its file)
AddEntryBreakpointFrom(results) ==
    /\ pc = "findEntry"
    /\ results # <<>>
    /\ LET entryPath == results[1].path
           entryLine == results[1].line[1]
           lineNumber == EntryLineNumber(FileLines(launchArgs.rootDir, entryPath), entryLine)
           merged == MergeEntryBreakpoint(breakpointsByClientPath, breakpointIdCounter,
                                          entryPath, lineNumber)
       IN /\ breakpointsByClientPath' = merged.store
          /\ entryBreakpoint' = merged.entryBreakpoint
          /\ breakpointIdCounter' = breakpointIdCounter + 1
          /\ issuedIds' = Append(issuedIds, breakpointIdCounter)
          /\ inj' = [p \in ClientPaths |->
                        IF p \in Keys(merged.store) THEN "reading" ELSE "none"]
    /\ pc' = "injecting"
    /\ steps' = Append(steps, "injection")
    /\ UNCHANGED <<launchArgs, launchRequestWasCalled, staged, launchResponse,
                   rokuAdapter>>
    /\ UNCHANGED <<sessionVars, ideVars, pathVars, requestVars, catchVars, runVars, evalVars>>

AddEntryBreakpoint == AddEntryBreakpointFrom(EntryResults(launchArgs.rootDir))

\* addBreakpointsToFile runs on for its file after Promise.all has rejected for
\* another file
InjectionRuns == pc \in {"injecting", "failed"}

\* lines 558-569: the file is read, the STOP lines are put in, the write starts
InjectRead(clientPath) ==
    /\ InjectionRuns
    /\ inj[clientPath] = "reading"
    /\ inj' = [inj EXCEPT ![clientPath] = "writing"]
    /\ UNCHANGED <<launchArgs, launchRequestWasCalled, pc, staged,
                   launchResponse, steps, rokuAdapter>>
    /\ UNCHANGED <<storeVars, sessionVars, ideVars, pathVars, requestVars, catchVars, runVars, evalVars>>

\* line 569: the write of the staged file completes.  The content is the one
\* computed when the file was read; neither the staged file nor the store has
\* changed since.
InjectWrite(clientPath) ==
    /\ InjectionRuns
    /\ inj[clientPath] = "writing"
    /\ staged' = [staged EXCEPT ![clientPath] =
                    InjectedFile(@, breakpointsByClientPath[clientPath])]
    /\ inj' = [inj EXCEPT ![clientPath] = "done"]
    /\ UNCHANGED <<launchArgs, launchRequestWasCalled, pc, launchResponse,
                   steps, rokuAdapter>>
    /\ UNCHANGED <<storeVars, sessionVars, ideVars, pathVars, requestVars, catchVars, runVars, evalVars>>

\* lines 558, 569 and 579, 175-179: readFile or writeFile rejects for one file.
\* The first rejection rejects Promise.all and reaches the catch block; a later
\* one is dropped.
InjectRejects(clientPath) ==
    /\ InjectionRuns
    /\ inj[clientPath] \in {"reading", "writing"}
    /\ inj' = [inj EXCEPT ![clientPath] = "rejected"]
    /\ IF pc = "injecting"
       THEN Catch
       ELSE UNCHANGED <<pc, launchResponse, launchResponsesSent, shutdownCalled>>
    /\ UNCHANGED <<launchArgs, launchRequestWasCalled, staged, steps,
                   rokuAdapter, error, compileFailureEvents, closeEvents>>
    /\ UNCHANGED <<storeVars, sessionVars, ideVars, pathVars, requestVars, runVars, evalVars>>

\* mutant of AllInjected: one settled file is enough (Promise.race)
AnyInjected == \E p \in ClientPaths : inj[p] = "done"

\* line 579: Promise.all(promises) resolves when every addBreakpointsToFile has
AllInjected == \A p \in ClientPaths : inj[p] \in {"none", "done"}

\* lines 579 and 121-127: Promise.all resolves, zipPackage is awaited
InjectionDone ==
    /\ pc = "injecting"
    /\ AllInjected
    /\ pc' = "packaging"
    /\ steps' = Append(steps, "packaging")
    /\ UNCHANGED <<launchArgs, launchRequestWasCalled, inj, staged,
                   launchResponse, rokuAdapter>>
    /\ UNCHANGED <<storeVars, sessionVars, ideVars, pathVars, requestVars, catchVars, runVars, evalVars>>

\* lines 127-130 and 502-538: the package is zipped; connectRokuAdapter creates
\* the adapter, registers its handlers and awaits connect
ZipPackageDone ==
    /\ pc = "packaging"
    /\ firstSuspend' = TRUE
    /\ rokuAdapter' = "created"
    /\ pc' = "connecting"
    /\ steps' = Append(steps, "connect")
    /\ UNCHANGED <<launchArgs, launchRequestWasCalled, inj, staged,
                   launchResponse, pendingSuspends, handledSuspends, suspendEvents,
                   continuesSent, stoppedEvents, variablesCleared>>
    /\ UNCHANGED <<storeVars, ideVars, pathVars, requestVars, catchVars, runVars, evalVars>>

\* lines 538-539 and 132-164: connected; rokuAdapterDeferred is resolved, the
\* close and compile-errors handlers are registered and publish is awaited
ConnectDone ==
    /\ pc = "connecting"
    /\ rokuAdapter' = "connected"
    /\ pc' = "publishing"
    /\ steps' = Append(steps, "publish")
    /\ UNCHANGED <<launchArgs, launchRequestWasCalled, inj, staged,
                   launchResponse>>
    /\ UNCHANGED <<storeVars, sessionVars, ideVars, pathVars, requestVars, catchVars, runVars, evalVars>>

\* lines 164-167: published; activate is awaited
PublishDone ==
    /\ pc = "publishing"
    /\ pc' = "activating"
    /\ steps' = Append(steps, "activate")
    /\ UNCHANGED <<launchArgs, launchRequestWasCalled, inj, staged,
                   launchResponse, rokuAdapter>>
    /\ UNCHANGED <<storeVars, sessionVars, ideVars, pathVars, requestVars, catchVars, runVars, evalVars>>

\* mutant of NoErrorRecorded: the error the handlers recorded is not looked at
NoErrorLookedFor == TRUE

\* line 169: if (!error)
NoErrorRecorded == error = "none"

\* lines 167-171: activated without an error; the launch request is answered
ActivateDone ==
    /\ pc = "activating"
    /\ NoErrorRecorded
    /\ launchResponse' = "ok"
    /\ launchResponsesSent' = launchResponsesSent + 1
    /\ pc' = "launched"
    /\ UNCHANGED <<launchArgs, launchRequestWasCalled, inj, staged, steps,
                   rokuAdapter, error, shutdownCalled, compileFailureEvents,
                   closeEvents>>
    /\ UNCHANGED <<storeVars, sessionVars, ideVars, pathVars, requestVars, runVars, evalVars>>

\* lines 167-179: activated, but a handler has recorded an error; it is thrown
\* and caught
ActivateDoneWithError ==
    /\ pc = "activating"
    /\ ~NoErrorRecorded
    /\ Catch
    /\ UNCHANGED <<launchArgs, launchRequestWasCalled, inj, staged, steps,
                   rokuAdapter, error, compileFailureEvents, closeEvents>>
    /\ UNCHANGED <<storeVars, sessionVars, ideVars, pathVars, requestVars, runVars, evalVars>>

\* the awaited steps of launchRequest whose promise may reject, by position:
\* prepublishToStaging (108), findInFiles and readFile of addEntryBreakpoint
\* (585-595), zipPackage (127), connect (538), publish (164), activate (167)
RejectingSteps ==
    {"staging", "findEntry", "packaging", "connecting", "publishing", "activating"}

\* lines 175-179: the awaited step rejects and the catch block runs
StepRejects ==
    /\ pc \in RejectingSteps
    /\ Catch
    /\ UNCHANGED <<launchArgs, launchRequestWasCalled, inj, staged, steps,
                   rokuAdapter, error, compileFailureEvents, closeEvents>>
    /\ UNCHANGED <<storeVars, sessionVars, ideVars, pathVars, requestVars, runVars, evalVars>>

----------------------------------------------------------------------------
(* The handlers launchRequest registers on the adapter (lines 145-159) *)

\* lines 151-159 and 182: the compile-errors handler is registered once connect
\* has resolved and is disconnected when launchRequest ends
CompileWatcherOn == pc \in {"publishing", "activating"}

\* lines 151-159: the device reports compile errors
CompileErrorsEvent ==
    /\ CompileWatcherOn
    /\ compileFailureEvents < MaxEvents
    /\ compileFailureEvents' = compileFailureEvents + 1
    /\ error' = "compile"
    /\ UNCHANGED <<launchArgs, launchRequestWasCalled, pc, inj, staged, steps,
                   launchResponse, rokuAdapter, shutdownCalled,
                   launchResponsesSent, closeEvents>>
    /\ UNCHANGED <<storeVars, sessionVars, ideVars, pathVars, requestVars, runVars, evalVars>>

\* lines 146-148: the close handler, registered once connect has resolved and
\* never removed; it records an error and does nothing else
CloseEvent ==
    /\ rokuAdapter = "connected"
    /\ closeEvents < MaxEvents
    /\ closeEvents' = closeEvents + 1
    /\ error' = "close"
    /\ UNCHANGED <<launchArgs, launchRequestWasCalled, pc, inj, staged, steps,
                   launchResponse, rokuAdapter, shutdownCalled,
                   launchResponsesSent, compileFailureEvents>>
    /\ UNCHANGED <<storeVars, sessionVars, ideVars, pathVars, requestVars, runVars, evalVars>>

----------------------------------------------------------------------------
(* The adapter's suspend event (lines 506-524) *)

\* the adapter is connected and the channel has been published
AdapterLive == pc \in {"activating", "launched"}

\* lines 506-507: the device suspends; the handler starts and awaits getThreads
SuspendEvent ==
    /\ AdapterLive
    /\ suspendEvents < MaxSuspends
    /\ suspendEvents' = suspendEvents + 1
    /\ pendingSuspends' = pendingSuspends + 1
    /\ UNCHANGED <<launchArgs, launchRequestWasCalled, pc, inj, staged, steps,
                   launchResponse, rokuAdapter, firstSuspend, handledSuspends,
                   continuesSent, stoppedEvents, variablesCleared>>
    /\ UNCHANGED <<storeVars, ideVars, pathVars, requestVars, catchVars, runVars, evalVars>>

\* mutant of IsStoppedOnEntry: the entry breakpoint is not looked at
IsStoppedOnEntryAtFirst == firstSuspend

\* mutant of IsStoppedOnEntry: firstSuspend is not looked at
IsStoppedOnEntryEveryTime == entryBreakpoint # Undefined

\* mutant of IsStoppedOnEntry: the entry breakpoint is tested for absence
IsStoppedOnEntryNegated == firstSuspend /\ entryBreakpoint = Undefined

\* is this the "stop on entry" breakpoint (line 510)?
IsStoppedOnEntry == firstSuspend /\ entryBreakpoint # Undefined

\* this.variables = {}
NoVariables == [r \in {} |-> <<>>]

\* lines 508-523: getThreads has answered the oldest waiting handler
SuspendHandler ==
    /\ pendingSuspends > 0
    /\ pendingSuspends' = pendingSuspends - 1
    /\ handledSuspends' = handledSuspends + 1
    /\ IF IsStoppedOnEntry /\ ~launchArgs.stopOnEntry
       THEN /\ continuesSent' = continuesSent + 1
            /\ UNCHANGED <<stoppedEvents, variablesCleared, variables>>
       ELSE /\ variablesCleared' = variablesCleared + 1
            /\ variables' = NoVariables
            /\ stoppedEvents' = stoppedEvents + 1
            /\ UNCHANGED continuesSent
    /\ firstSuspend' = FALSE
    /\ UNCHANGED <<launchArgs, launchRequestWasCalled, pc, inj, staged, steps,
                   launchResponse, rokuAdapter, suspendEvents>>
    /\ UNCHANGED <<storeVars, ideVars, pathVars, requestVars, catchVars, runVars>>
    /\ UNCHANGED <<evaluateRefIdLookup, evaluateRefIdCounter, pendingEvaluates,
                   getVariableCalls, evaluateRequests, lastAnswer, resumesForwarded>>

----------------------------------------------------------------------------
(* The runtime-error and cannot-continue handlers (lines 526-536) *)

\* lines 527-528: the device reports a runtime error; the handler starts and
\* awaits getThreads
RuntimeErrorEvent ==
    /\ AdapterLive
    /\ runtimeErrorEvents < MaxEvents
    /\ runtimeErrorEvents' = runtimeErrorEvents + 1
    /\ pendingRuntimeErrors' = pendingRuntimeErrors + 1
    /\ UNCHANGED <<exceptionStops, cannotContinueEvents, terminatedEvents,
                   adapterDestroyed, disconnectPc, homePresses,
                   disconnectResponses, stackTraceRequests, pendingStackTraces,
                   stackTraceQueries, stackTraceResponses, isAtDebuggerPrompt>>
    /\ UNCHANGED <<launchArgs, launchRequestWasCalled, pc, inj, staged, steps,
                   launchResponse, rokuAdapter>>
    /\ UNCHANGED <<storeVars, sessionVars, ideVars, pathVars, requestVars, catchVars, evalVars>>

\* mutant of RuntimeErrorTerminates: the handler ends the session as well
RuntimeErrorTerminatesToo == TRUE

\* line 530: the handler sends a StoppedEvent and no TerminatedEvent
RuntimeErrorTerminates == FALSE

\* lines 529-530: getThreads has answered a waiting runtime-error handler
RuntimeErrorHandler ==
    /\ pendingRuntimeErrors > 0
    /\ pendingRuntimeErrors' = pendingRuntimeErrors - 1
    /\ exceptionStops' = exceptionStops + 1
    /\ terminatedEvents' = terminatedEvents + (IF RuntimeErrorTerminates THEN 1 ELSE 0)
    /\ UNCHANGED <<runtimeErrorEvents, cannotContinueEvents, adapterDestroyed,
                   disconnectPc, homePresses, disconnectResponses,
                   stackTraceRequests, pendingStackTraces, stackTraceQueries,
                   stackTraceResponses, isAtDebuggerPrompt>>
    /\ UNCHANGED <<launchArgs, launchRequestWasCalled, pc, inj, staged, steps,
                   launchResponse, rokuAdapter>>
    /\ UNCHANGED <<storeVars, sessionVars, ideVars, pathVars, requestVars, catchVars, evalVars>>

\* lines 534-536: the device says it cannot continue
CannotContinueEvent ==
    /\ AdapterLive
    /\ cannotContinueEvents < MaxEvents
    /\ cannotContinueEvents' = cannotContinueEvents + 1
    /\ terminatedEvents' = terminatedEvents + 1
    /\ UNCHANGED <<runtimeErrorEvents, pendingRuntimeErrors, exceptionStops,
                   adapterDestroyed, disconnectPc, homePresses,
                   disconnectResponses, stackTraceRequests, pendingStackTraces,
                   stackTraceQueries, stackTraceResponses, isAtDebuggerPrompt>>
    /\ UNCHANGED <<launchArgs, launchRequestWasCalled, pc, inj, staged, steps,
                   launchResponse, rokuAdapter>>
    /\ UNCHANGED <<storeVars, sessionVars, ideVars, pathVars, requestVars, catchVars, evalVars>>

\* rokuAdapter.isAtDebuggerPrompt is the adapter's; the session only reads it
PromptChanges ==
    /\ rokuAdapter = "connected"
    /\ isAtDebuggerPrompt' = ~isAtDebuggerPrompt
    /\ UNCHANGED <<runtimeErrorEvents, pendingRuntimeErrors, exceptionStops,
                   cannotContinueEvents, terminatedEvents, adapterDestroyed,
                   disconnectPc, homePresses, disconnectResponses,
                   stackTraceRequests, pendingStackTraces, stackTraceQueries,
                   stackTraceResponses>>
    /\ UNCHANGED <<launchArgs, launchRequestWasCalled, pc, inj, staged, steps,
                   launchResponse, rokuAdapter>>
    /\ UNCHANGED <<storeVars, sessionVars, ideVars, pathVars, requestVars, catchVars, evalVars>>

----------------------------------------------------------------------------
(* disconnectRequest (lines 491-498) *)

\* lines 492-496: the adapter, if there is one, is destroyed; then
\* this.launchArgs.host is read, which throws when no launch was requested, and
\* pressHomeButton is awaited
DisconnectRequest ==
    /\ disconnectPc = "none"
    /\ adapterDestroyed' = (rokuAdapter # "undefined")
    /\ IF launchArgs = NoArgs
       THEN /\ disconnectPc' = "threw"
            /\ UNCHANGED homePresses
       ELSE /\ disconnectPc' = "pressingHome"
            /\ homePresses' = homePresses + 1
    /\ UNCHANGED <<runtimeErrorEvents, pendingRuntimeErrors, exceptionStops,
                   cannotContinueEvents, terminatedEvents, disconnectResponses,
                   stackTraceRequests, pendingStackTraces, stackTraceQueries,
                   stackTraceResponses, isAtDebuggerPrompt>>
    /\ UNCHANGED <<launchArgs, launchRequestWasCalled, pc, inj, staged, steps,
                   launchResponse, rokuAdapter>>
    /\ UNCHANGED <<storeVars, sessionVars, ideVars, pathVars, requestVars, catchVars, evalVars>>

\* lines 496-497: pressHomeButton resolves and the request is answered
PressHomeDone ==
    /\ disconnectPc = "pressingHome"
    /\ disconnectPc' = "answered"
    /\ disconnectResponses' = disconnectResponses + 1
    /\ UNCHANGED <<runtimeErrorEvents, pendingRuntimeErrors, exceptionStops,
                   cannotContinueEvents, terminatedEvents, adapterDestroyed,
                   homePresses, stackTraceRequests, pendingStackTraces,
                   stackTraceQueries, stackTraceResponses, isAtDebuggerPrompt>>
    /\ UNCHANGED <<launchArgs, launchRequestWasCalled, pc, inj, staged, steps,
                   launchResponse, rokuAdapter>>
    /\ UNCHANGED <<storeVars, sessionVars, ideVars, pathVars, requestVars, catchVars, evalVars>>

\* line 496: pressHomeButton rejects; disconnectRequest ends with the rejection
PressHomeRejects ==
    /\ disconnectPc = "pressingHome"
    /\ disconnectPc' = "rejected"
    /\ UNCHANGED <<runtimeErrorEvents, pendingRuntimeErrors, exceptionStops,
                   cannotContinueEvents, terminatedEvents, adapterDestroyed,
                   homePresses, disconnectResponses, stackTraceRequests,
                   pendingStackTraces, stackTraceQueries, stackTraceResponses,
                   isAtDebuggerPrompt>>
    /\ UNCHANGED <<launchArgs, launchRequestWasCalled, pc, inj, staged, steps,
                   launchResponse, rokuAdapter>>
    /\ UNCHANGED <<storeVars, sessionVars, ideVars, pathVars, requestVars, catchVars, evalVars>>

----------------------------------------------------------------------------
(* stackTraceRequest (lines 279-317) *)

\* mutant of StackTraceAllowed: the prompt is not looked at
StackTraceAlwaysAllowed == TRUE

\* line 283: the stack trace is only asked for at the debugger prompt
StackTraceAllowed == isAtDebuggerPrompt

\* the body of a stackTrace response for the frames given
StackTraceBody(frames) == [stackFrames |-> frames, totalFrames |-> Len(frames)]

\* lines 280-284 and 309-316: the request is received.  With no adapter the read
\* of this.rokuAdapter.isAtDebuggerPrompt throws; at the prompt getStackTrace is
\* awaited; otherwise the request is answered with no frames.
StackTraceRequest ==
    /\ stackTraceRequests < MaxRequests
    /\ stackTraceRequests' = stackTraceRequests + 1
    /\ IF rokuAdapter = "undefined"
       THEN UNCHANGED <<pendingStackTraces, stackTraceQueries, stackTraceResponses>>
       ELSE IF StackTraceAllowed
       THEN /\ stackTraceQueries' = stackTraceQueries + 1
            /\ pendingStackTraces' = pendingStackTraces + 1
            /\ UNCHANGED stackTraceResponses
       ELSE /\ stackTraceResponses' = Append(stackTraceResponses, StackTraceBody(<<>>))
            /\ UNCHANGED <<pendingStackTraces, stackTraceQueries>>
    /\ UNCHANGED <<runtimeErrorEvents, pendingRuntimeErrors, exceptionStops,
                   cannotContinueEvents, terminatedEvents, adapterDestroyed,
                   disconnectPc, homePresses, disconnectResponses,
                   isAtDebuggerPrompt>>
    /\ UNCHANGED <<launchArgs, launchRequestWasCalled, pc, inj, staged, steps,
                   launchResponse, rokuAdapter>>
    /\ UNCHANGED <<storeVars, sessionVars, ideVars, pathVars, requestVars, catchVars, evalVars>>

\* the stack traces the device may answer with: no frame, or one frame in the
\* entry file
DeviceStackTraces ==
    {<<>>} \cup {<<[filePath |-> MainPath, lineNumber |-> n]>> :
                    n \in 1..Len(staged[MainPath])}

\* lines 286-308: one StackFrame per frame of the device, its line corrected
ClientFrames(stackTrace) ==
    [i \in 1..Len(stackTrace) |->
        [path |-> stackTrace[i].filePath,
         line |-> convertDebuggerLineToClientLine(
                    breakpointsByClientPath, stackTrace[i].filePath,
                    stackTrace[i].lineNumber)]]

\* lines 284-316: getStackTrace has answered, and the request is answered
StackTraceAnswer(stackTrace) ==
    /\ pendingStackTraces > 0
    /\ pendingStackTraces' = pendingStackTraces - 1
    /\ stackTraceResponses' =
            Append(stackTraceResponses, StackTraceBody(ClientFrames(stackTrace)))
    /\ UNCHANGED <<runtimeErrorEvents, pendingRuntimeErrors, exceptionStops,
                   cannotContinueEvents, terminatedEvents, adapterDestroyed,
                   disconnectPc, homePresses, disconnectResponses,
                   stackTraceRequests, stackTraceQueries, isAtDebuggerPrompt>>
    /\ UNCHANGED <<launchArgs, launchRequestWasCalled, pc, inj, staged, steps,
                   launchResponse, rokuAdapter>>
    /\ UNCHANGED <<storeVars, sessionVars, ideVars, pathVars, requestVars, catchVars, evalVars>>

----------------------------------------------------------------------------
(* evaluateRequest (lines 394-435) and the evaluation references (681-718) *)

\* the expressions the IDE asks for, as line 398 leaves them
Expressions == {"x", "m.y"}

\* result.highLevelType, as RokuAdapter.getVariable reports it
HighLevelTypes == {"primative", "uninitialized", "array", "object", "function"}

\* evaluateRefIdLookup is an object literal ({}, line 53), so reading it under
\* the name of a member of Object.prototype gives that member, which is truthy
\* and not a number.  Such a value is written as a negative integer.
InheritedNames == {"constructor"}
Inherited(name) == -2

\* getEvaluateRefId: the reference id of the expression, and the lookup and the
\* counter it leaves.  The test of line 709 finds a value under the expression
\* when the lookup holds an id for it or inherits a member of that name.
getEvaluateRefId(lookup, counter, expression) ==
    IF expression \in DOMAIN lookup
    THEN [refId |-> lookup[expression], lookup |-> lookup, counter |-> counter]
    ELSE IF expression \in InheritedNames
    THEN [refId |-> Inherited(expression), lookup |-> lookup, counter |-> counter]
    ELSE [refId |-> counter,
          lookup |-> [e \in DOMAIN lookup \cup {expression} |->
                        IF e = expression THEN counter ELSE lookup[e]],
          counter |-> counter + 1]

\* the StoppedEvents sent to the IDE so far, of either reason
Stops == stoppedEvents + exceptionStops

\* new Variable(name, value, ref): ref is 0 when it is not given.  The record
\* also notes how many StoppedEvents had been sent when it was made.
\* childVariables is set from the children of a result (697-704); only the
\* variables of arrays and objects, whose results have children, are read for it.
Variable(evaluateName, highLevelType, ref) ==
    [evaluateName |-> evaluateName, highLevelType |-> highLevelType,
     variablesReference |-> ref, stops |-> Stops, childVariables |-> <<>>]

\* an EvaluateContainer as RokuAdapter.getVariable reports it
Result(evaluateName, highLevelType, children) ==
    [evaluateName |-> evaluateName, highLevelType |-> highLevelType,
     children |-> children]

\* an evaluate response with variablesReference ref (-1: a response without a
\* body), and the stops and resumes there had been when it was sent
Answer(ref) == [ref |-> ref, stops |-> Stops, resumes |-> resumesForwarded]

\* lastAnswer with the response for the expression noted
NoteAnswer(expression, ref) ==
    [e \in DOMAIN lastAnswer \cup {expression} |->
        IF e = expression THEN Answer(ref) ELSE lastAnswer[e]]

\* lines 685-692: only an array or an object gets a reference id and is cached
HasReference(highLevelType) == highLevelType \in {"array", "object"}

\* this.variables[refId] = v
Cached(cache, refId, v) ==
    [r \in DOMAIN cache \cup {refId} |-> IF r = refId THEN v ELSE cache[r]]

RECURSIVE getVariableFromResult(_, _, _, _)

\* the loop of lines 699-702 over the children k, k+1, ...: the child variables
\* added to list, and the lookup, the counter and the cache the calls leave
RECURSIVE ChildVariables(_, _, _, _, _, _)
ChildVariables(lookup, counter, cache, children, k, list) ==
    IF k > Len(children)
    THEN [list |-> list, lookup |-> lookup, counter |-> counter, variables |-> cache]
    ELSE LET c == getVariableFromResult(lookup, counter, cache, children[k])
         IN ChildVariables(c.lookup, c.counter, c.variables, children, k + 1,
                           Append(list, c.v))

\* getVariableFromResult: the variable, and the lookup, the counter and the
\* cache it leaves.  The variable of an array or an object gets its reference
\* id and its place in the cache before its children get theirs, and it is the
\* cached object that receives the child variables (703).
getVariableFromResult(lookup, counter, cache, result) ==
    LET g == IF HasReference(result.highLevelType)
             THEN getEvaluateRefId(lookup, counter, result.evaluateName)
             ELSE [refId |-> 0, lookup |-> lookup, counter |-> counter]
        own == Variable(result.evaluateName, result.highLevelType, g.refId)
        kids == ChildVariables(
                    g.lookup, g.counter,
                    IF HasReference(result.highLevelType)
                    THEN Cached(cache, g.refId, own) ELSE cache,
                    result.children, 1, <<>>)
        v == [own EXCEPT !.childVariables = kids.list]
    IN [v |-> v, lookup |-> kids.lookup, counter |-> kids.counter,
        variables |-> IF HasReference(result.highLevelType)
                         /\ g.refId \in DOMAIN kids.variables
                         /\ kids.variables[g.refId] = own
                      THEN Cached(kids.variables, g.refId, v)
                      ELSE kids.variables]

\* mutant of IsCached: nothing is taken from the cache
NeverCached(cache, refId) == FALSE

\* line 402: if (this.variables[refId])
IsCached(cache, refId) == refId \in DOMAIN cache

\* line 405: a request waiting at `await this.rokuAdapter.getVariable(...)`,
\* with the resume requests forwarded so far
Waiting(expression) ==
    [expression |-> expression, resumes |-> resumesForwarded]

\* lines 395-407 and 430-434, for the hover, watch and print forms.  With no
\* adapter the read of this.rokuAdapter.isAtDebuggerPrompt throws.  Away from
\* the prompt the request is answered without a body.  At the prompt the
\* variable is taken from the cache, or getVariable is awaited.
EvaluateRequest(expression) ==
    /\ evaluateRequests < MaxRequests
    /\ evaluateRequests' = evaluateRequests + 1
    /\ IF rokuAdapter = "undefined"
       THEN UNCHANGED <<evaluateRefIdLookup, evaluateRefIdCounter,
                        pendingEvaluates, getVariableCalls, lastAnswer>>
       ELSE IF ~isAtDebuggerPrompt
       THEN /\ lastAnswer' = NoteAnswer(expression, -1)
            /\ UNCHANGED <<evaluateRefIdLookup, evaluateRefIdCounter,
                           pendingEvaluates, getVariableCalls>>
       ELSE LET g == getEvaluateRefId(evaluateRefIdLookup, evaluateRefIdCounter,
                                      expression)
            IN /\ evaluateRefIdLookup' = g.lookup
               /\ evaluateRefIdCounter' = g.counter
               /\ IF IsCached(variables, g.refId)
                  THEN /\ lastAnswer' =
                            NoteAnswer(expression, variables[g.refId].variablesReference)
                       /\ UNCHANGED <<pendingEvaluates, getVariableCalls>>
                  ELSE /\ getVariableCalls' = getVariableCalls + 1
                       /\ pendingEvaluates' =
                            Append(pendingEvaluates, Waiting(expression))
                       /\ UNCHANGED lastAnswer
    /\ UNCHANGED <<variables, resumesForwarded>>
    /\ UNCHANGED <<launchArgs, launchRequestWasCalled, pc, inj, staged, steps,
                   launchResponse, rokuAdapter>>
    /\ UNCHANGED <<storeVars, sessionVars, ideVars, pathVars, requestVars, catchVars, runVars>>

\* lines 405-413 and 434: getVariable has answered the oldest waiting request
\* with a result of the type given and the children given; the request is
\* answered
GetVariableResult(highLevelType, children) ==
    /\ pendingEvaluates # <<>>
    /\ LET expression == Head(pendingEvaluates).expression
           r == getVariableFromResult(
                    evaluateRefIdLookup, evaluateRefIdCounter, variables,
                    Result(expression, highLevelType, children))
       IN /\ evaluateRefIdLookup' = r.lookup
          /\ evaluateRefIdCounter' = r.counter
          /\ variables' = r.variables
          /\ lastAnswer' = NoteAnswer(expression, r.v.variablesReference)
    /\ pendingEvaluates' = Tail(pendingEvaluates)
    /\ UNCHANGED <<getVariableCalls, evaluateRequests, resumesForwarded>>
    /\ UNCHANGED <<launchArgs, launchRequestWasCalled, pc, inj, staged, steps,
                   launchResponse, rokuAdapter>>
    /\ UNCHANGED <<storeVars, sessionVars, ideVars, pathVars, requestVars, catchVars, runVars>>

\* the same with a result that has no children
GetVariableAnswer(highLevelType) == GetVariableResult(highLevelType, <<>>)

----------------------------------------------------------------------------
(* continueRequest, nextRequest, stepInRequest, stepOutRequest (lines 325-363) *)

ResumeCommands == {"continue", "stepOver", "stepInto", "stepOut"}

\* mutant of AfterResume: the cache is emptied
ClearedOnResume(cache) == NoVariables

\* this.variables after one of the four requests: none of them writes it
AfterResume(cache) == cache

\* the command is forwarded to the adapter and the request is answered
ResumeRequest(command) ==
    /\ rokuAdapter # "undefined"
    /\ resumesForwarded < MaxResumes
    /\ resumesForwarded' = resumesForwarded + 1
    /\ variables' = AfterResume(variables)
    /\ UNCHANGED <<evaluateRefIdLookup, evaluateRefIdCounter, pendingEvaluates,
                   getVariableCalls, evaluateRequests, lastAnswer>>
    /\ UNCHANGED <<launchArgs, launchRequestWasCalled, pc, inj, staged, steps,
                   launchResponse, rokuAdapter>>
    /\ UNCHANGED <<storeVars, sessionVars, ideVars, pathVars, requestVars, catchVars, runVars>>

----------------------------------------------------------------------------
(* threadsRequest (lines 252-277) *)

\* line 539: rokuAdapterDeferred is resolved when connect has resolved, and
\* nowhere else; nothing rejects it
AdapterLoaded == rokuAdapter = "connected"

\* lines 253-255: the request is received and awaits getRokuAdapter()
ThreadsRequest ==
    /\ threadsRequests < MaxRequests
    /\ threadsRequests' = threadsRequests + 1
    /\ threadsAtAdapter' = threadsAtAdapter + 1
    /\ UNCHANGED <<threadsAtDevice, threadsResponses, variablesRequests,
                   pendingVariables, variablesResponses, pendingRepl,
                   replEvaluates, replResponses>>
    /\ UNCHANGED <<launchArgs, launchRequestWasCalled, pc, inj, staged, steps,
                   launchResponse, rokuAdapter>>
    /\ UNCHANGED <<storeVars, sessionVars, ideVars, pathVars, catchVars, runVars, evalVars>>

\* lines 255-276: the promise of the adapter is resolved and a waiting request
\* runs on: at the debugger prompt it awaits getThreads, away from it the
\* request is answered with no threads
ThreadsAdapterLoaded ==
    /\ threadsAtAdapter > 0
    /\ AdapterLoaded
    /\ threadsAtAdapter' = threadsAtAdapter - 1
    /\ IF isAtDebuggerPrompt
       THEN /\ threadsAtDevice' = threadsAtDevice + 1
            /\ UNCHANGED threadsResponses
       ELSE /\ threadsResponses' = threadsResponses + 1
            /\ UNCHANGED threadsAtDevice
    /\ UNCHANGED <<threadsRequests, variablesRequests, pendingVariables,
                   variablesResponses, pendingRepl, replEvaluates, replResponses>>
    /\ UNCHANGED <<launchArgs, launchRequestWasCalled, pc, inj, staged, steps,
                   launchResponse, rokuAdapter>>
    /\ UNCHANGED <<storeVars, sessionVars, ideVars, pathVars, catchVars, runVars, evalVars>>

\* lines 261-276: getThreads has answered and the request is answered
ThreadsAnswer ==
    /\ threadsAtDevice > 0
    /\ threadsAtDevice' = threadsAtDevice - 1
    /\ threadsResponses' = threadsResponses + 1
    /\ UNCHANGED <<threadsRequests, threadsAtAdapter, variablesRequests,
                   pendingVariables, variablesResponses, pendingRepl,
                   replEvaluates, replResponses>>
    /\ UNCHANGED <<launchArgs, launchRequestWasCalled, pc, inj, staged, steps,
                   launchResponse, rokuAdapter>>
    /\ UNCHANGED <<storeVars, sessionVars, ideVars, pathVars, catchVars, runVars, evalVars>>

----------------------------------------------------------------------------
(* evaluateRequest in the debug console (lines 415-429) *)

\* An expression typed in the console is a sequence of characters.
\* toLowerCase() of one character
LowerCaseOf(c) ==
    CASE c = "C" -> "c"
      [] c = "S" -> "s"
      [] c = "T" -> "t"
      [] OTHER -> c

\* expression.toLowerCase()
lowerCase(s) == [i \in 1..Len(s) |-> LowerCaseOf(s[i])]

\* expression.trim(): the blanks at both ends are cut off
RECURSIVE trim(_)
trim(s) ==
    IF s = <<>> THEN s
    ELSE IF Head(s) = " " THEN trim(Tail(s))
    ELSE IF s[Len(s)] = " " THEN trim(SubSeq(s, 1, Len(s) - 1))
    ELSE s

\* line 418
excludedExpressions ==
    {<<"c", "o", "n", "t">>, <<"c">>, <<"d", "o", "w", "n">>, <<"d">>,
     <<"e", "x", "i", "t">>, <<"o", "v", "e", "r">>, <<"o">>, <<"o", "u", "t">>,
     <<"s", "t", "e", "p">>, <<"s">>, <<"t">>,
     <<"t", "h", "r", "e", "a", "d">>, <<"t", "h">>, <<"u", "p">>, <<"u">>}

\* mutant of IsExcluded: the expression is compared as it was typed
IsExcludedAsTyped(expression) == expression \in excludedExpressions

\* line 419
IsExcluded(expression) == trim(lowerCase(expression)) \in excludedExpressions

\* what the user types in the console: commands of the device's debugger, as
\* they are listed, in capitals and between blanks, and other expressions, none
\* of them in the print form of line 396
ReplExpressions ==
    {<<"c", "o", "n", "t">>, <<" ", "C", " ">>, <<"S", "t", "e", "p">>,
     <<"t", "h", " ">>, <<"x">>, <<"c", "o">>, <<"s", " ", "t">>,
     <<"s", "t", "o", "p">>}

\* lines 395, 416-434, for the repl context.  With no adapter the read of
\* this.rokuAdapter.isAtDebuggerPrompt throws.  Away from the prompt the request
\* is answered without a body.  At the prompt an excluded expression gets an
\* OutputEvent and the answer; any other is passed to rokuAdapter.evaluate.
EvaluateReplRequest(expression) ==
    /\ evaluateRequests < MaxRequests
    /\ evaluateRequests' = evaluateRequests + 1
    /\ IF rokuAdapter = "undefined"
       THEN UNCHANGED <<outputEvents, pendingRepl, replEvaluates, replResponses>>
       ELSE IF ~isAtDebuggerPrompt
       THEN /\ replResponses' = replResponses + 1
            /\ UNCHANGED <<outputEvents, pendingRepl, replEvaluates>>
       ELSE IF IsExcluded(expression)
       THEN /\ outputEvents' = outputEvents + 1
            /\ replResponses' = replResponses + 1
            /\ UNCHANGED <<pendingRepl, replEvaluates>>
       ELSE /\ replEvaluates' = replEvaluates + 1
            /\ pendingRepl' = pendingRepl + 1
            /\ UNCHANGED <<outputEvents, replResponses>>
    /\ UNCHANGED <<evaluateRefIdLookup, evaluateRefIdCounter, variables,
                   pendingEvaluates, getVariableCalls, lastAnswer,
                   resumesForwarded>>
    /\ UNCHANGED <<requestsReceived, responsesSent, lastResponse>>
    /\ UNCHANGED <<threadsRequests, threadsAtAdapter, threadsAtDevice,
                   threadsResponses, variablesRequests, pendingVariables,
                   variablesResponses>>
    /\ UNCHANGED <<launchArgs, launchRequestWasCalled, pc, inj, staged, steps,
                   launchResponse, rokuAdapter>>
    /\ UNCHANGED <<storeVars, sessionVars, pathVars, catchVars, runVars>>

\* lines 422-425 and 434: rokuAdapter.evaluate has answered; the request is
\* answered
EvaluateReplAnswer ==
    /\ pendingRepl > 0
    /\ pendingRepl' = pendingRepl - 1
    /\ replResponses' = replResponses + 1
    /\ UNCHANGED <<threadsRequests, threadsAtAdapter, threadsAtDevice,
                   threadsResponses, variablesRequests, pendingVariables,
                   variablesResponses, replEvaluates>>
    /\ UNCHANGED <<launchArgs, launchRequestWasCalled, pc, inj, staged, steps,
                   launchResponse, rokuAdapter>>
    /\ UNCHANGED <<storeVars, sessionVars, ideVars, pathVars, catchVars, runVars, evalVars>>

----------------------------------------------------------------------------
(* variablesRequest (lines 371-392) *)

\* the evaluateName of the element the device reports for a container
ChildOf(evaluateName) ==
    CASE evaluateName = "x" -> "x[0]"
      [] evaluateName = "m.y" -> "m.y[0]"
      [] evaluateName = "x[0]" -> "x[0][0]"
      [] evaluateName = "m.y[0]" -> "m.y[0][0]"
      [] OTHER -> ""

\* result.children as the device may report them for a result of the type
\* given: an array or an object has no element, or one element that is a
\* primitive or an array, itself reported without its elements
ChildResults(evaluateName, highLevelType) ==
    IF HasReference(highLevelType) /\ ChildOf(evaluateName) # ""
    THEN {<<>>,
          <<Result(ChildOf(evaluateName), "primative", <<>>)>>,
          <<Result(ChildOf(evaluateName), "array", <<>>)>>}
    ELSE {<<>>}

\* the kinds of result told apart by getVariableFromResult: without and with
\* a reference id
ResultKinds == {"primative", "array"}

\* getVariable answers the oldest waiting evaluate request, children included
GetVariableWithChildren ==
    /\ pendingEvaluates # <<>>
    /\ \E t \in ResultKinds :
        \E c \in ChildResults(Head(pendingEvaluates).expression, t) :
            GetVariableResult(t, c)

\* a variables response, with the stops there had been when it was sent and
\* whether the device was at the debugger prompt
VariablesBody(ref, childVariables) ==
    [ref |-> ref, variables |-> childVariables, stops |-> Stops,
     prompt |-> isAtDebuggerPrompt]

\* mutant of ChildrenLoaded: the children are never taken as loaded
ChildrenNeverLoaded(v) == FALSE

\* line 379, negated: the variable holds child variables
ChildrenLoaded(v) == Len(v.childVariables) # 0

\* lines 372-391 up to the await.  With no adapter the read of
\* this.rokuAdapter.isAtDebuggerPrompt throws, and at the prompt the read of
\* v.childVariables throws when this.variables holds nothing under the
\* reference.  Away from the prompt the request is answered with no variables.
\* At the prompt the children of the variable are sent, or getVariable is
\* awaited when it holds none.
VariablesRequest(variablesReference) ==
    /\ variablesRequests < MaxRequests
    /\ variablesRequests' = variablesRequests + 1
    /\ IF rokuAdapter = "undefined"
       THEN UNCHANGED <<pendingVariables, variablesResponses, getVariableCalls>>
       ELSE IF ~isAtDebuggerPrompt
       THEN /\ variablesResponses' =
                    Append(variablesResponses, VariablesBody(variablesReference, <<>>))
            /\ UNCHANGED <<pendingVariables, getVariableCalls>>
       ELSE IF variablesReference \notin DOMAIN variables
       THEN UNCHANGED <<pendingVariables, variablesResponses, getVariableCalls>>
       ELSE IF ChildrenLoaded(variables[variablesReference])
       THEN /\ variablesResponses' =
                    Append(variablesResponses,
                           VariablesBody(variablesReference,
                                         variables[variablesReference].childVariables))
            /\ UNCHANGED <<pendingVariables, getVariableCalls>>
       ELSE /\ getVariableCalls' = getVariableCalls + 1
            /\ pendingVariables' =
                    Append(pendingVariables,
                           [ref |-> variablesReference,
                            v |-> variables[variablesReference]])
            /\ UNCHANGED variablesResponses
    /\ UNCHANGED <<evaluateRefIdLookup, evaluateRefIdCounter, variables,
                   pendingEvaluates, evaluateRequests, lastAnswer,
                   resumesForwarded>>
    /\ UNCHANGED <<threadsRequests, threadsAtAdapter, threadsAtDevice,
                   threadsResponses, pendingRepl, replEvaluates, replResponses>>
    /\ UNCHANGED <<launchArgs, launchRequestWasCalled, pc, inj, staged, steps,
                   launchResponse, rokuAdapter>>
    /\ UNCHANGED <<storeVars, sessionVars, ideVars, pathVars, catchVars, runVars>>

\* lines 380-391: getVariable has answered the oldest waiting request with a
\* result of the kind of the variable and the children given.
\* getVariableFromResult puts its variable in the cache under the reference id
\* of the result's evaluateName, which is the one the waiting variable was
\* cached under, so the assignment of line 382 to the waiting variable shows
\* nowhere; the children of the result are sent.
VariablesAnswer(children) ==
    /\ pendingVariables # <<>>
    /\ LET h == Head(pendingVariables)
           r == getVariableFromResult(
                    evaluateRefIdLookup, evaluateRefIdCounter, variables,
                    Result(h.v.evaluateName, h.v.highLevelType, children))
       IN /\ evaluateRefIdLookup' = r.lookup
          /\ evaluateRefIdCounter' = r.counter
          /\ variables' = r.variables
          /\ variablesResponses' =
                Append(variablesResponses, VariablesBody(h.ref, r.v.childVariables))
    /\ pendingVariables' = Tail(pendingVariables)
    /\ UNCHANGED <<pendingEvaluates, getVariableCalls, evaluateRequests,
                   lastAnswer, resumesForwarded>>
    /\ UNCHANGED <<threadsRequests, threadsAtAdapter, threadsAtDevice,
                   threadsResponses, variablesRequests, pendingRepl,
                   replEvaluates, replResponses>>
    /\ UNCHANGED <<launchArgs, launchRequestWasCalled, pc, inj, staged, steps,
                   launchResponse, rokuAdapter>>
    /\ UNCHANGED <<storeVars, sessionVars, ideVars, pathVars, catchVars, runVars>>

\* getVariable answers the oldest waiting variables request
VariablesAnswered ==
    /\ pendingVariables # <<>>
    /\ \E c \in ChildResults(Head(pendingVariables).v.evaluateName,
                             Head(pendingVariables).v.highLevelType) :
            VariablesAnswer(c)

----------------------------------------------------------------------------
(* Paths as strings *)

\* A path is a sequence of tokens: the separator, the parent segment "..", the
\* characters of file and folder names, and the two markers of device paths.
\* The functions of the path module are those of posix.
Sep == "/"
Up == ".."
PkgMarker == "pkg:"
TruncationMarker == "..."

\* s.indexOf(sub), 1-based; 0 for JavaScript's -1
indexOf(s, sub) ==
    LET at == {i \in 1..(Len(s) - Len(sub) + 1) :
                    SubSeq(s, i, i + Len(sub) - 1) = sub}
    IN IF at = {} THEN 0 ELSE CHOOSE i \in at : \A j \in at : i <= j

\* s.endsWith(suffix)
endsWith(s, suffix) ==
    /\ Len(suffix) <= Len(s)
    /\ SubSeq(s, Len(s) - Len(suffix) + 1, Len(s)) = suffix

\* s.substring(n): s without its first n characters
substring(s, n) == SubSeq(s, n + 1, Len(s))

\* s.replace(from, to) for a string pattern: the first occurrence is replaced
replace(s, from, to) ==
    LET i == indexOf(s, from)
    IN IF i = 0 THEN s
       ELSE SubSeq(s, 1, i - 1) \o to \o SubSeq(s, i + Len(from), Len(s))

\* the segments of a path, empty ones left out
RECURSIVE Segments(_)
Segments(s) ==
    IF s = <<>> THEN <<>>
    ELSE IF Head(s) = Sep THEN Segments(Tail(s))
    ELSE LET i == indexOf(s, <<Sep>>)
             n == IF i = 0 THEN Len(s) + 1 ELSE i
         IN <<SubSeq(s, 1, n - 1)>> \o Segments(SubSeq(s, n, Len(s)))

\* normalizeString of the path module: ".." removes the segment before it
RECURSIVE Resolve(_, _, _)
Resolve(segments, stack, isAbsolute) ==
    IF segments = <<>> THEN stack
    ELSE IF Head(segments) # <<Up>>
    THEN Resolve(Tail(segments), Append(stack, Head(segments)), isAbsolute)
    ELSE IF stack # <<>> /\ stack[Len(stack)] # <<Up>>
    THEN Resolve(Tail(segments), SubSeq(stack, 1, Len(stack) - 1), isAbsolute)
    ELSE IF isAbsolute
    THEN Resolve(Tail(segments), stack, isAbsolute)
    ELSE Resolve(Tail(segments), Append(stack, <<Up>>), isAbsolute)

RECURSIVE JoinSegments(_)
JoinSegments(segments) ==
    IF segments = <<>> THEN <<>>
    ELSE IF Len(segments) = 1 THEN Head(segments)
    ELSE Head(segments) \o <<Sep>> \o JoinSegments(Tail(segments))

\* path.normalize(p)
normalize(p) ==
    IF p = <<>> THEN <<".">>
    ELSE LET isAbsolute == Head(p) = Sep
             trailingSeparator == p[Len(p)] = Sep
             resolved == JoinSegments(Resolve(Segments(p), <<>>, isAbsolute))
             dotted == IF resolved = <<>> /\ ~isAbsolute THEN <<".">> ELSE resolved
             closed == IF dotted # <<>> /\ trailingSeparator
                       THEN dotted \o <<Sep>> ELSE dotted
         IN IF isAbsolute THEN <<Sep>> \o closed ELSE closed

\* path.join(a, b)
join(a, b) ==
    IF a = <<>> /\ b = <<>> THEN <<".">>
    ELSE IF a = <<>> THEN normalize(b)
    ELSE IF b = <<>> THEN normalize(a)
    ELSE normalize(a \o <<Sep>> \o b)

\* the strings of tokens of length 1..n
RECURSIVE Strings(_, _)
Strings(alphabet, n) ==
    IF n = 0 THEN {}
    ELSE {<<c>> : c \in alphabet}
         \union {Append(s, c) : s \in Strings(alphabet, n - 1), c \in alphabet}

\* the elements of a sequence
Range(s) == {s[i] : i \in 1..Len(s)}

----------------------------------------------------------------------------
(* The project of the path conversions *)

\* the folder prepublishToStaging fills
StagingFolder == <<Sep, "s">>

\* the folders a launch configuration may name as rootDir or debugRootDir
PathRoots == {<<Sep, "a">>, <<Sep, "b">>, <<Sep, "a", Sep, "b">>}

\* the files of the project, relative to its root, in the order glob lists them
PathFiles == << <<"a">>, <<"a", Sep, "b">>, <<"b", Sep, "a">> >>

\* the files of a project that has one file more
MorePathFiles == Append(PathFiles, <<"a", Sep, "a">>)

\* the file that declares the entry routine, on its first line
EntryRelativePath == <<"a">>

\* the paths the IDE may name in a setBreakpoints request: the files of the
\* project under each folder, and one path that is not normalized
SourcePaths ==
    {r \o <<Sep>> \o f : r \in PathRoots, f \in Range(PathFiles)}
    \union {<<Sep, "a", Sep, Up, Sep, "b", Sep, "a">>}

\* the files on disk: the staged ones and those the IDE can open
Exists(p) ==
    \/ \E f \in Range(stagingDirPaths) : p = StagingFolder \o <<Sep>> \o f
    \/ \E s \in SourcePaths : p = normalize(s)

\* the enumerations of a set of keys
Orders(S) ==
    {o \in [1..Cardinality(S) -> S] : \A i, j \in 1..Cardinality(S) :
                                          o[i] = o[j] => i = j}

\* line 67: baseProjectPath
baseProjectPath(args) == normalize(args.rootDir)

\* The loop of convertBreakpointPaths (lines 199-203) over the keys the for-in
\* statement enumerates: a key deleted before its turn is skipped, a key added
\* by the loop is not visited.
RECURSIVE ConvertKeys(_, _, _, _)
ConvertKeys(store, keys, fromRootPath, toRootPath) ==
    IF keys = <<>> THEN store
    ELSE IF Head(keys) \notin Keys(store)
    THEN ConvertKeys(store, Tail(keys), fromRootPath, toRootPath)
    ELSE LET clientPath == Head(keys)
             debugClientPath ==
                 normalize(replace(clientPath, fromRootPath, toRootPath))
             assigned == Put(store, debugClientPath, store[clientPath])
             deleted == [p \in Keys(assigned) \ {clientPath} |-> assigned[p]]
         IN ConvertKeys(deleted, Tail(keys), fromRootPath, toRootPath)

\* convertBreakpointPaths (lines 196-205), the keys enumerated in the order given
convertBreakpointPaths(store, keys, fromRootPath, toRootPath) ==
    IF fromRootPath # <<>>
    THEN ConvertKeys(store, keys, fromRootPath, toRootPath)
    ELSE store

\* mutant of StagingFilePath: the file is the source file itself
SourceFilePath(args, stagingPath, clientPath) == normalize(clientPath)

\* lines 554-556: the staged file addBreakpointsToFile reads and writes
StagingFilePath(args, stagingPath, clientPath) ==
    LET relativeClientPath ==
            replace(normalize(clientPath), baseProjectPath(args), <<>>)
    IN join(stagingPath, relativeClientPath)

\* mutant of SingleMatch: the first of several matches is taken too
AnyMatch(results) == Len(results) >= 1

\* line 474: if (results.length === 1)
SingleMatch(results) == Len(results) = 1

\* convertDebuggerPathToClient (lines 455-484)
convertDebuggerPathToClient(index, args, debuggerPath) ==
    LET stripped ==
            IF debuggerPath # <<>> /\ Head(debuggerPath) = PkgMarker
            THEN substring(debuggerPath, 1)
            ELSE IF debuggerPath # <<>> /\ Head(debuggerPath) = TruncationMarker
            THEN LET suffix == substring(debuggerPath, 1)
                     results == SelectSeq(index, LAMBDA stagingPath :
                                    /\ indexOf(stagingPath, suffix) > 0
                                    /\ endsWith(stagingPath, suffix))
                 IN IF SingleMatch(results) THEN results[1] ELSE suffix
            ELSE debuggerPath
        rootDir == IF args.debugRootDir # <<>> THEN args.debugRootDir
                   ELSE args.rootDir
    IN normalize(join(rootDir, stripped))

\* lines 108-116: the staging folder is filled, its files are listed, and with a
\* debugRootDir the keys of the store are converted to paths under rootDir
LoadStagingDirPaths(index) ==
    /\ pc = "staging"
    /\ stagingDirPaths' = index
    /\ storeAtLaunch' = breakpointsByClientPath
    /\ \E keys \in Orders(Keys(breakpointsByClientPath)) :
          breakpointsByClientPath' =
              IF launchArgs.debugRootDir # <<>>
              THEN convertBreakpointPaths(breakpointsByClientPath, keys,
                                          launchArgs.debugRootDir, launchArgs.rootDir)
              ELSE breakpointsByClientPath
    /\ pc' = "findEntry"
    /\ steps' = Append(steps, "entry")
    /\ UNCHANGED <<launchArgs, launchRequestWasCalled, inj, staged,
                   launchResponse, rokuAdapter>>
    /\ UNCHANGED <<breakpointIdCounter, entryBreakpoint, issuedIds, writtenFiles,
                   lastConversion>>
    /\ UNCHANGED <<sessionVars, ideVars, requestVars, catchVars, runVars, evalVars>>

\* lines 119 and 548-635: the entry breakpoint is merged under the path
\* findInFiles reports, then every key's staged file is read and rewritten.
\* A read of a file that does not exist rejects and the launch fails, the other
\* files being written all the same.
AddBreakpointStatements ==
    /\ pc = "findEntry"
    /\ LET entryPath == join(baseProjectPath(launchArgs), EntryRelativePath)
           merged == MergeEntryBreakpoint(breakpointsByClientPath,
                                          breakpointIdCounter, entryPath, 1)
           file == [k \in Keys(merged.store) |->
                        StagingFilePath(launchArgs, StagingFolder, k)]
       IN /\ breakpointsByClientPath' = merged.store
          /\ entryBreakpoint' = merged.entryBreakpoint
          /\ breakpointIdCounter' = breakpointIdCounter + 1
          /\ issuedIds' = Append(issuedIds, breakpointIdCounter)
          /\ writtenFiles' =
                {[file |-> file[k], breakpoints |-> merged.store[k]] :
                    k \in {q \in Keys(merged.store) : Exists(file[q])}}
          /\ IF \A k \in Keys(merged.store) : Exists(file[k])
             THEN /\ pc' = "rekeying"
                  /\ steps' = Append(steps, "injection")
                  /\ UNCHANGED <<launchResponse, catchVars>>
             ELSE /\ Catch
                  /\ UNCHANGED <<steps, error, compileFailureEvents, closeEvents>>
    /\ UNCHANGED <<launchArgs, launchRequestWasCalled, inj, staged, rokuAdapter>>
    /\ UNCHANGED <<stagingDirPaths, storeAtLaunch, lastConversion>>
    /\ UNCHANGED <<sessionVars, ideVars, requestVars, runVars, evalVars>>

\* lines 121-124: with a debugRootDir the keys of the store are converted back
\* to paths under debugRootDir
ConvertToDebugPaths ==
    /\ pc = "rekeying"
    /\ \E keys \in Orders(Keys(breakpointsByClientPath)) :
          breakpointsByClientPath' =
              IF launchArgs.debugRootDir # <<>>
              THEN convertBreakpointPaths(breakpointsByClientPath, keys,
                                          launchArgs.rootDir, launchArgs.debugRootDir)
              ELSE breakpointsByClientPath
    /\ pc' = "packaging"
    /\ steps' = Append(steps, "packaging")
    /\ UNCHANGED <<launchArgs, launchRequestWasCalled, inj, staged,
                   launchResponse, rokuAdapter>>
    /\ UNCHANGED <<breakpointIdCounter, entryBreakpoint, issuedIds>>
    /\ UNCHANGED <<sessionVars, ideVars, pathVars, requestVars, catchVars, runVars, evalVars>>

\* lines 293 and 663: the path of a stack frame is converted, once launched
ConvertDebuggerPath(debuggerPath) ==
    /\ pc = "launched"
    /\ lastConversion' =
          [debuggerPath |-> debuggerPath,
           clientPath |-> convertDebuggerPathToClient(stagingDirPaths, launchArgs,
                                                      debuggerPath)]
    /\ UNCHANGED <<launchArgs, launchRequestWasCalled, pc, inj, staged, steps,
                   launchResponse, rokuAdapter>>
    /\ UNCHANGED <<stagingDirPaths, writtenFiles, storeAtLaunch>>
    /\ UNCHANGED <<storeVars, sessionVars, ideVars, requestVars, catchVars, runVars, evalVars>>

\* the device path of a staged file
DevicePath(relativePath) == <<PkgMarker, Sep>> \o relativePath

PathLaunchArgs ==
    [rootDir : PathRoots, debugRootDir : PathRoots \union {<<>>},
     stopOnEntry : {FALSE}]

\* the session with folders: requests for files under any folder, the launch
\* with and without a debugRootDir, and the paths of stack frames
NextPaths ==
    \/ \E p \in SourcePaths :
            ~launchRequestWasCalled /\ SetBreakPoints(normalize(p), <<1>>, TRUE)
    \/ \E args \in PathLaunchArgs : LaunchRequest(args)
    \/ LoadStagingDirPaths(PathFiles)
    \/ AddBreakpointStatements
    \/ ConvertToDebugPaths
    \/ ZipPackageDone
    \/ ConnectDone
    \/ PublishDone
    \/ ActivateDone
    \/ \E f \in Range(PathFiles) : ConvertDebuggerPath(DevicePath(f))

SpecPaths == Init /\ [][NextPaths]_vars

\* the truncated paths the device may report: the marker and a suffix
TruncatedPaths ==
    {<<TruncationMarker>> \o s : s \in Strings({Sep, "a", "b"}, MaxSuffixLen)}

\* the launch without requests, and the paths of stack frames, truncated or not
NextIndex ==
    \/ \E args \in PathLaunchArgs : LaunchRequest(args)
    \/ \E index \in {PathFiles, MorePathFiles} : LoadStagingDirPaths(index)
    \/ AddBreakpointStatements
    \/ ConvertToDebugPaths
    \/ ZipPackageDone
    \/ ConnectDone
    \/ PublishDone
    \/ ActivateDone
    \/ \E f \in Range(MorePathFiles) : ConvertDebuggerPath(DevicePath(f))
    \/ \E d \in TruncatedPaths : ConvertDebuggerPath(d)

SpecIndex == Init /\ [][NextIndex]_vars

----------------------------------------------------------------------------
LaunchArgs == [rootDir : Projects, stopOnEntry : BOOLEAN]

Next ==
    \/ \E p \in ClientPaths : \E ls \in RequestLines(p, SessionReqLen) :
            SetBreakPointsRequest(p, ls)
    \/ \E args \in LaunchArgs : LaunchRequest(args)
    \/ StagingDone
    \/ EntryNotFound
    \/ AddEntryBreakpoint
    \/ \E p \in ClientPaths : InjectRead(p)
    \/ \E p \in ClientPaths : InjectWrite(p)
    \/ InjectionDone
    \/ ZipPackageDone
    \/ ConnectDone
    \/ PublishDone
    \/ ActivateDone
    \/ SuspendEvent
    \/ SuspendHandler

Spec == Init /\ [][Next]_vars

\* the session up to the end of the injection, its requests sent before the launch
NextStore ==
    \/ \E p \in ClientPaths : \E ls \in RequestLines(p, MaxReqLen) :
            ~launchRequestWasCalled /\ SetBreakPointsRequest(p, ls)
    \/ \E args \in LaunchArgs : ~args.stopOnEntry /\ LaunchRequest(args)
    \/ StagingDone
    \/ EntryNotFound
    \/ AddEntryBreakpoint
    \/ \E p \in ClientPaths : InjectRead(p)
    \/ \E p \in ClientPaths : InjectWrite(p)
    \/ InjectionDone

SpecStore == Init /\ [][NextStore]_vars

\* the search for the entry routine: requests before the launch, then the
\* launch of any project up to addEntryBreakpoint, findInFiles reporting the
\* files in any order
EntryLaunchArgs == [rootDir : EntryProjects, stopOnEntry : {FALSE}]

NextEntry ==
    \/ \E p \in ClientPaths : \E ls \in RequestLines(p, SessionReqLen) :
            ~launchRequestWasCalled /\ SetBreakPointsRequest(p, ls)
    \/ \E args \in EntryLaunchArgs : LaunchRequest(args)
    \/ StagingDone
    \/ EntryNotFound
    \/ \E files \in FileOrders :
            AddEntryBreakpointFrom(EntryResultsIn(launchArgs.rootDir, files))

SpecEntry == Init /\ [][NextEntry]_vars

\* the launch with its failures: requests before the launch, every awaited step
\* resolving or rejecting, and the events of the adapter that launchRequest
\* listens for
NextLaunch ==
    \/ \E p \in ClientPaths : \E ls \in RequestLines(p, SessionReqLen) :
            ~launchRequestWasCalled /\ SetBreakPointsRequest(p, ls)
    \/ \E args \in LaunchArgs : ~args.stopOnEntry /\ LaunchRequest(args)
    \/ StagingDone
    \/ EntryNotFound
    \/ AddEntryBreakpoint
    \/ \E p \in ClientPaths : InjectRead(p)
    \/ \E p \in ClientPaths : InjectWrite(p)
    \/ \E p \in ClientPaths : InjectRejects(p)
    \/ InjectionDone
    \/ ZipPackageDone
    \/ ConnectDone
    \/ PublishDone
    \/ ActivateDone
    \/ ActivateDoneWithError
    \/ StepRejects
    \/ CompileErrorsEvent
    \/ CloseEvent

SpecLaunch == Init /\ [][NextLaunch]_vars

\* the session without setBreakpoints requests: the launch, the events of the
\* device and the disconnect request
NextRun ==
    \/ \E args \in LaunchArgs : LaunchRequest(args)
    \/ StagingDone
    \/ EntryNotFound
    \/ AddEntryBreakpoint
    \/ \E p \in ClientPaths : InjectRead(p)
    \/ \E p \in ClientPaths : InjectWrite(p)
    \/ InjectionDone
    \/ ZipPackageDone
    \/ ConnectDone
    \/ PublishDone
    \/ ActivateDone
    \/ ActivateDoneWithError
    \/ SuspendEvent
    \/ SuspendHandler
    \/ RuntimeErrorEvent
    \/ RuntimeErrorHandler
    \/ CannotContinueEvent
    \/ CloseEvent
    \/ DisconnectRequest
    \/ PressHomeDone
    \/ PressHomeRejects

SpecRun == Init /\ [][NextRun]_vars

\* the session without setBreakpoints requests: the launch and stackTrace
\* requests, the adapter entering and leaving the debugger prompt
NextTrace ==
    \/ \E args \in LaunchArgs : LaunchRequest(args)
    \/ StagingDone
    \/ EntryNotFound
    \/ AddEntryBreakpoint
    \/ \E p \in ClientPaths : InjectRead(p)
    \/ \E p \in ClientPaths : InjectWrite(p)
    \/ InjectionDone
    \/ ZipPackageDone
    \/ ConnectDone
    \/ PublishDone
    \/ ActivateDone
    \/ PromptChanges
    \/ StackTraceRequest
    \/ \E st \in DeviceStackTraces : StackTraceAnswer(st)

SpecTrace == Init /\ [][NextTrace]_vars

\* the requests of the IDE that follow the answer to the launch request
Launched == pc = "launched"

\* the session without setBreakpoints requests: the launch, with stopOnEntry, of
\* the project with an entry routine, the stops of the device, and the evaluate,
\* continue and step requests, sent once the launch is answered, one evaluate
\* request at a time
NextEval ==
    \/ \E args \in LaunchArgs :
            args.rootDir = "main" /\ args.stopOnEntry /\ LaunchRequest(args)
    \/ StagingDone
    \/ AddEntryBreakpoint
    \/ \E p \in ClientPaths : InjectRead(p)
    \/ \E p \in ClientPaths : InjectWrite(p)
    \/ InjectionDone
    \/ ZipPackageDone
    \/ ConnectDone
    \/ PublishDone
    \/ ActivateDone
    \/ suspendEvents < MaxEvents /\ SuspendEvent
    \/ SuspendHandler
    \/ RuntimeErrorEvent
    \/ RuntimeErrorHandler
    \/ Launched /\ PromptChanges
    \/ \E e \in Expressions :
            Launched /\ pendingEvaluates = <<>> /\ EvaluateRequest(e)
    \/ \E t \in HighLevelTypes : GetVariableAnswer(t)
    \/ \E c \in ResumeCommands : Launched /\ ResumeRequest(c)

SpecEval == Init /\ [][NextEval]_vars

\* a step of launchRequest: an awaited step resolves or rejects
LaunchStep ==
    \/ StagingDone
    \/ EntryNotFound
    \/ AddEntryBreakpoint
    \/ \E p \in ClientPaths : InjectRead(p)
    \/ \E p \in ClientPaths : InjectWrite(p)
    \/ InjectionDone
    \/ ZipPackageDone
    \/ ConnectDone
    \/ PublishDone
    \/ ActivateDone
    \/ StepRejects

\* the session without setBreakpoints requests: the launch, every awaited step
\* resolving or rejecting, and threads requests, sent before and after the
\* adapter is connected
NextThreads ==
    \/ \E args \in LaunchArgs : ~args.stopOnEntry /\ LaunchRequest(args)
    \/ LaunchStep
    \/ PromptChanges
    \/ ThreadsRequest
    \/ ThreadsAdapterLoaded
    \/ ThreadsAnswer

\* The IDE sends its launch request, every awaited call of launchRequest
\* settles, a request whose promise is resolved runs on, and getThreads answers.
SpecThreadsFair ==
    /\ Init /\ [][NextThreads]_vars
    /\ WF_vars(\E args \in LaunchArgs : ~args.stopOnEntry /\ LaunchRequest(args))
    /\ WF_vars(LaunchStep)
    /\ WF_vars(ThreadsAdapterLoaded)
    /\ WF_vars(ThreadsAnswer)

\* the expressions of the hover, watch and print forms, names that the lookup
\* inherits included
AllExpressions == Expressions \cup InheritedNames

\* the session without setBreakpoints requests: the launch of the project with
\* an entry routine, the stops of the device, and evaluate requests of every
\* form, sent at any time
NextConsole ==
    \/ \E args \in LaunchArgs :
            args.rootDir = "main" /\ ~args.stopOnEntry /\ LaunchRequest(args)
    \/ StagingDone
    \/ AddEntryBreakpoint
    \/ \E p \in ClientPaths : InjectRead(p)
    \/ \E p \in ClientPaths : InjectWrite(p)
    \/ InjectionDone
    \/ ZipPackageDone
    \/ ConnectDone
    \/ PublishDone
    \/ ActivateDone
    \/ suspendEvents < MaxEvents /\ SuspendEvent
    \/ SuspendHandler
    \/ PromptChanges
    \/ \E e \in AllExpressions : EvaluateRequest(e)
    \/ \E t \in HighLevelTypes : GetVariableAnswer(t)
    \/ \E e \in ReplExpressions : EvaluateReplRequest(e)
    \/ EvaluateReplAnswer

SpecConsole == Init /\ [][NextConsole]_vars

\* the reference ids handed out so far
HandedOut == 1..(evaluateRefIdCounter - 1)

\* the session without setBreakpoints requests: the launch, with stopOnEntry, of
\* the project with an entry routine, the stops of the device, and evaluate and
\* variables requests, sent once the launch is answered, several of them at a
\* time.  No request resumes the device here, so it stays at the debugger
\* prompt once it is there.
NextVariables ==
    \/ \E args \in LaunchArgs :
            args.rootDir = "main" /\ args.stopOnEntry /\ LaunchRequest(args)
    \/ StagingDone
    \/ AddEntryBreakpoint
    \/ \E p \in ClientPaths : InjectRead(p)
    \/ \E p \in ClientPaths : InjectWrite(p)
    \/ InjectionDone
    \/ ZipPackageDone
    \/ ConnectDone
    \/ PublishDone
    \/ ActivateDone
    \/ suspendEvents < MaxEvents /\ SuspendEvent
    \/ SuspendHandler
    \/ Launched /\ ~isAtDebuggerPrompt /\ PromptChanges
    \/ Launched /\ EvaluateRequest("x")
    \/ GetVariableWithChildren
    \/ \E ref \in HandedOut : Launched /\ VariablesRequest(ref)
    \/ VariablesAnswered

SpecVariables == Init /\ [][NextVariables]_vars

\* the session with either value of stopOnEntry and with setBreakpoints
\* requests before the launch, one of which on the line of the entry routine
\* leaves the session without an entry breakpoint; once launched, the stops of
\* the device and evaluate requests that fill the variable cache
NextStops ==
    \/ \E p \in ClientPaths : \E ls \in RequestLines(p, SessionReqLen) :
            ~launchRequestWasCalled /\ SetBreakPointsRequest(p, ls)
    \/ \E args \in LaunchArgs : args.rootDir = "main" /\ LaunchRequest(args)
    \/ StagingDone
    \/ AddEntryBreakpoint
    \/ \E p \in ClientPaths : InjectRead(p)
    \/ \E p \in ClientPaths : InjectWrite(p)
    \/ InjectionDone
    \/ ZipPackageDone
    \/ ConnectDone
    \/ PublishDone
    \/ ActivateDone
    \/ SuspendEvent
    \/ SuspendHandler
    \/ Launched /\ ~isAtDebuggerPrompt /\ PromptChanges
    \/ Launched /\ pendingEvaluates = <<>> /\ EvaluateRequest("x")
    \/ GetVariableAnswer("array")

SpecStops == Init /\ [][NextStops]_vars

----------------------------------------------------------------------------
(* Properties *)

\* the lines of the source file behind a client path
SourceLines(clientPath) == FileLines(launchArgs.rootDir, clientPath)

\* the staged file of clientPath has been rewritten
Injected(clientPath) == inj[clientPath] = "done"

\* the line of a staged file that carries line clientLine of the source
DeviceLineOf(file, clientLine) ==
    CHOOSE d \in 1..Len(file) : file[d].src = clientLine

LinesOf(breakpoints) == {breakpoints[i].line : i \in 1..Len(breakpoints)}

DistinctLines(breakpoints) ==
    \A i, j \in 1..Len(breakpoints) :
        breakpoints[i].line = breakpoints[j].line => i = j

SortedByLine(breakpoints) ==
    \A i, j \in 1..Len(breakpoints) :
        i < j => breakpoints[i].line <= breakpoints[j].line

(* C1: for every file and every list of breakpoints stored for it, once the
   STOP lines are injected, the device line of every original client line L is
   translated back to L by convertDebuggerLineToClientLine. *)
C1_LineRoundTrip ==
    \A p \in ClientPaths : Injected(p) =>
        \A L \in 1..Len(SourceLines(p)) :
            convertDebuggerLineToClientLine(
                breakpointsByClientPath, p, DeviceLineOf(staged[p], L)) = L

\* the staged file without its STOP lines
RemoveStops(file) == SelectSeq(file, LAMBDA l : l # StopLine)

\* the source file with one space appended to each line of the set padded
PaddedCopy(clientPath, padded) ==
    [i \in 1..Len(SourceLines(clientPath)) |->
        [txt |-> SourceLines(clientPath)[i],
         sp |-> IF i \in padded THEN 1 ELSE 0,
         src |-> i]]

\* n + k lines, k of them STOP lines, one immediately before each target line
StopsPrecedeTargets(clientPath) ==
    LET file == staged[clientPath]
        breakpoints == breakpointsByClientPath[clientPath]
    IN /\ Len(file) = Len(SourceLines(clientPath)) + Len(breakpoints)
       /\ Cardinality({d \in 1..Len(file) : file[d] = StopLine}) = Len(breakpoints)
       /\ \A b \in LinesOf(breakpoints) :
            /\ DeviceLineOf(file, b) > 1
            /\ file[DeviceLineOf(file, b) - 1] = StopLine

\* the case of C2: breakpoints on distinct lines of the file
C2_Case(clientPath) ==
    /\ Injected(clientPath)
    /\ DistinctLines(breakpointsByClientPath[clientPath])
    /\ LinesOf(breakpointsByClientPath[clientPath]) \subseteq
            1..Len(SourceLines(clientPath))

(* C2 as stated: after the injection of k breakpoints on distinct lines of a
   file of n lines, the staged file has n + k lines, every target line is
   immediately preceded by one STOP line, and removing the STOP lines gives
   back the original file. *)
C2_OriginalKept ==
    \A p \in ClientPaths : C2_Case(p) =>
        /\ StopsPrecedeTargets(p)
        /\ RemoveStops(staged[p]) = StagedCopy(launchArgs.rootDir, p)

(* C2 amended: after the injection of k breakpoints on distinct lines of a
   file of n lines, the staged file has n + k lines, every target line is
   immediately preceded by one STOP line, and removing the STOP lines gives
   back the original lines in their order, each target line with one space
   appended to it and every other line unchanged. *)
C2_OriginalKeptButPadded ==
    \A p \in ClientPaths : C2_Case(p) =>
        /\ StopsPrecedeTargets(p)
        /\ RemoveStops(staged[p]) =
                PaddedCopy(p, LinesOf(breakpointsByClientPath[p]))

\* a file has been rewritten with two breakpoints on distinct lines
C2_Witness ==
    \E p \in ClientPaths :
        /\ C2_Case(p)
        /\ Len(breakpointsByClientPath[p]) >= 2
        /\ ~SortedByLine(breakpointsByClientPath[p])

\* a step in which setBreakPointsRequest handles a request
HandlesSetBreakpoints == requestsReceived' = requestsReceived + 1

(* C3: a set-breakpoints request that arrives after launchRequest has been
   called leaves breakpointsByClientPath and the breakpoint id counter
   unchanged and sends one warning OutputEvent. *)
C3_LateRequestChangesNothing ==
    [][(launchRequestWasCalled /\ HandlesSetBreakpoints) =>
            /\ breakpointsByClientPath' = breakpointsByClientPath
            /\ breakpointIdCounter' = breakpointIdCounter
            /\ outputEvents' = outputEvents + 1]_vars

\* a request was refused while the store held breakpoints
C3_Witness ==
    /\ launchRequestWasCalled
    /\ outputEvents > 0
    /\ Keys(breakpointsByClientPath) # {}

(* C4: a set-breakpoints request that arrives after launch is answered: a
   response with an empty breakpoint list is sent for it, and the session goes
   on. *)
C4_LateRequestAnswered ==
    [][(launchRequestWasCalled /\ HandlesSetBreakpoints) =>
            /\ responsesSent' = responsesSent + 1
            /\ lastResponse' = <<>>
            /\ pc' = pc]_vars

\* the store and the response hold one verified breakpoint per requested line
\* for path p, and every other path keeps its list
C5_Replaced(p, ls) ==
    /\ p \in Keys(breakpointsByClientPath')
    /\ Len(breakpointsByClientPath'[p]) = Len(ls)
    /\ \A i \in 1..Len(ls) :
        /\ breakpointsByClientPath'[p][i].line = ls[i]
        /\ breakpointsByClientPath'[p][i].verified
    /\ responsesSent' = responsesSent + 1
    /\ lastResponse' = breakpointsByClientPath'[p]
    /\ \A q \in ClientPaths \ {p} :
        /\ q \in Keys(breakpointsByClientPath') <=> q \in Keys(breakpointsByClientPath)
        /\ q \in Keys(breakpointsByClientPath) =>
                breakpointsByClientPath'[q] = breakpointsByClientPath[q]

\* nothing is stored and the response holds no breakpoint
C5_Ignored ==
    /\ breakpointsByClientPath' = breakpointsByClientPath
    /\ responsesSent' = responsesSent + 1
    /\ lastResponse' = <<>>

(* C5 as stated: a set-breakpoints request for a path before launch replaces
   the list stored for that path with one verified breakpoint per requested
   line, returns that list, and leaves the lists of all other paths unchanged. *)
C5_EarlyRequestReplaces ==
    [][\A p \in ClientPaths : \A ls \in RequestLines(p, MaxReqLen) :
            (~launchRequestWasCalled /\ SetBreakPointsRequest(p, ls)) =>
                C5_Replaced(p, ls)]_vars

(* C5 amended: a set-breakpoints request before launch for a path whose
   extension is .brs (in any letter case) replaces the list stored for that
   path with one verified breakpoint per requested line, returns that list, and
   leaves the lists of all other paths unchanged; for a path with another
   extension nothing is stored and the response holds no breakpoint. *)
C5_EarlyBrsRequestReplaces ==
    [][\A p \in ClientPaths : \A ls \in RequestLines(p, MaxReqLen) :
            (~launchRequestWasCalled /\ SetBreakPointsRequest(p, ls)) =>
                IF p \in {MainPath, LibPath}
                THEN C5_Replaced(p, ls)
                ELSE C5_Ignored]_vars

\* two .brs paths hold lists, the last one answered with two breakpoints
C5_Witness ==
    /\ ~launchRequestWasCalled
    /\ Keys(breakpointsByClientPath) = {MainPath, LibPath}
    /\ Len(lastResponse) = 2
    /\ responsesSent = 2

\* the ids of the breakpoints of the store
StoredIds ==
    UNION {{breakpointsByClientPath[p][i].id :
                i \in 1..Len(breakpointsByClientPath[p])} :
           p \in Keys(breakpointsByClientPath)}

IssuedIds == {issuedIds[i] : i \in 1..Len(issuedIds)}

(* C6: breakpoint ids are unique and never reused: every breakpoint created,
   by a set-breakpoints request or as the entry breakpoint, gets an id greater
   than all ids issued before it, and no two breakpoints of the store share an
   id. *)
C6_IdsUnique ==
    /\ \A i, j \in 1..Len(issuedIds) : i < j => issuedIds[i] < issuedIds[j]
    /\ StoredIds \subseteq IssuedIds
    /\ entryBreakpoint # Undefined => entryBreakpoint.id \in IssuedIds
    /\ \A p, q \in Keys(breakpointsByClientPath) :
        \A i \in 1..Len(breakpointsByClientPath[p]) :
            \A j \in 1..Len(breakpointsByClientPath[q]) :
                breakpointsByClientPath[p][i].id = breakpointsByClientPath[q][j].id
                    => (p = q /\ i = j)

\* a list was replaced by a second request for its path and the entry
\* breakpoint was created after it
C6_Witness ==
    /\ entryBreakpoint # Undefined
    /\ Cardinality(StoredIds) >= 3
    /\ IssuedIds \ StoredIds # {}

(* C7: when the handler of the first suspend event of a session runs with an
   entry breakpoint recorded and stopOnEntry false, it sends continue to the
   device and sends no StoppedEvent to the IDE. *)
C7_EntryStopSkipped ==
    [][(/\ handledSuspends = 0
        /\ handledSuspends' = 1
        /\ entryBreakpoint # Undefined
        /\ ~launchArgs.stopOnEntry) =>
            /\ continuesSent' = continuesSent + 1
            /\ stoppedEvents' = stoppedEvents]_vars

\* the first suspend was skipped and a later one was surfaced
C7_Witness ==
    /\ entryBreakpoint # Undefined
    /\ ~launchArgs.stopOnEntry
    /\ continuesSent = 1
    /\ handledSuspends = 2
    /\ stoppedEvents = 1

\* addEntryBreakpoint has merged the entry breakpoint
Merged == pc \in {"injecting", "packaging", "connecting", "publishing",
                  "activating", "launched"}

\* the file with the entry routine, and the line after its declaration
EntryFile == MainPath
EntryLanding ==
    1 + (CHOOSE i \in 1..Len(SourceLines(EntryFile)) :
            SourceLines(EntryFile)[i] = "sub main()")

UserBreakpoints(list) == SelectSeq(list, LAMBDA b : ~b.isEntryBreakpoint)

UserLines(clientPath) ==
    LinesOf(UserBreakpoints(breakpointsByClientPath[clientPath]))

(* C8 as stated: if a user breakpoint sits on the line one before or one after
   the line where the entry breakpoint would land, the entry breakpoint is
   dropped: after addEntryBreakpoint the list of the file has the size of the
   user's list. *)
C8_DroppedNextToUserBreakpoint ==
    (Merged /\ UserLines(EntryFile) \cap {EntryLanding - 1, EntryLanding + 1} # {}) =>
        Len(breakpointsByClientPath[EntryFile]) =
            Len(UserBreakpoints(breakpointsByClientPath[EntryFile]))

(* C8 amended: if a user breakpoint sits on the very line where the entry
   breakpoint would land, the entry breakpoint is dropped: after
   addEntryBreakpoint the list of the file has the size of the user's list.
   Otherwise, also with a user breakpoint one line before or after, the entry
   breakpoint is kept and the list is one longer than the user's list. *)
C8_DroppedOnUserBreakpointLine ==
    Merged =>
        Len(breakpointsByClientPath[EntryFile]) =
            Len(UserBreakpoints(breakpointsByClientPath[EntryFile]))
            + (IF EntryLanding \in UserLines(EntryFile) THEN 0 ELSE 1)

\* dropped, with user breakpoints on the landing line and on the line before
C8_Witness ==
    /\ Merged
    /\ {EntryLanding - 1, EntryLanding} \subseteq UserLines(EntryFile)
    /\ Len(breakpointsByClientPath[EntryFile]) = 2

\* the step of addEntryBreakpoint with a user breakpoint on the landing line
C9_Case ==
    /\ pc = "findEntry"
    /\ pc' = "injecting"
    /\ EntryFile \in Keys(breakpointsByClientPath)
    /\ EntryLanding \in LinesOf(breakpointsByClientPath[EntryFile])

Elements(list) == {list[i] : i \in 1..Len(list)}

(* C9: if a user breakpoint occupies the line of the entry breakpoint, the
   entry breakpoint is discarded: after addEntryBreakpoint the list of the file
   holds exactly the user's breakpoints, with their ids and lines, and no entry
   breakpoint is recorded. *)
C9_UserBreakpointsKept ==
    [][C9_Case =>
            /\ entryBreakpoint' = Undefined
            /\ Len(breakpointsByClientPath'[EntryFile]) =
                    Len(breakpointsByClientPath[EntryFile])
            /\ Elements(breakpointsByClientPath'[EntryFile]) =
                    Elements(breakpointsByClientPath[EntryFile])]_vars

\* discarded, the user's two breakpoints reordered by the sort
C9_Witness ==
    /\ pc = "injecting"
    /\ entryBreakpoint = Undefined
    /\ Len(breakpointsByClientPath[EntryFile]) = 2
    /\ breakpointsByClientPath[EntryFile][1].id > breakpointsByClientPath[EntryFile][2].id

(* C10 as stated: after entry-point merging no list of the store holds two
   breakpoints with the same line, whatever lines the set-breakpoints requests
   carried. *)
C10_NoSharedLine ==
    Merged => \A p \in Keys(breakpointsByClientPath) :
                DistinctLines(breakpointsByClientPath[p])

(* C10 amended: after entry-point merging the entry breakpoint shares its line
   with no other breakpoint, so a list of the store holds two breakpoints with
   the same line only if both are the user's: a set-breakpoints request named
   that line twice. *)
C10_NoLineSharedWithEntry ==
    Merged => \A p \in Keys(breakpointsByClientPath) :
        \A i, j \in 1..Len(breakpointsByClientPath[p]) :
            (/\ i # j
             /\ breakpointsByClientPath[p][i].line = breakpointsByClientPath[p][j].line)
                => (/\ ~breakpointsByClientPath[p][i].isEntryBreakpoint
                    /\ ~breakpointsByClientPath[p][j].isEntryBreakpoint)

\* the entry breakpoint merged between two user breakpoints
C10_Witness ==
    /\ Merged
    /\ entryBreakpoint # Undefined
    /\ Len(breakpointsByClientPath[EntryFile]) = 3
    /\ breakpointsByClientPath[EntryFile][2] = entryBreakpoint

----------------------------------------------------------------------------
(* The launch and its failures *)

\* the steps of launchRequest in the order of its code
PipelineOrder ==
    <<"staging", "entry", "injection", "packaging", "connect", "publish",
      "activate">>

IsPrefix(s, t) == Len(s) <= Len(t) /\ s = SubSeq(t, 1, Len(s))

\* no staged file has been rewritten, and no rewrite is under way
NothingRewritten ==
    \A p \in ClientPaths :
        /\ inj[p] = "none"
        /\ staged[p] \in {<<>>, StagedCopy(launchArgs.rootDir, p)}

\* the launched project declares no entry routine
NoEntryRoutine ==
    /\ launchRequestWasCalled
    /\ EntryResults(launchArgs.rootDir) = <<>>

(* C11: a launch of a project in which no entry routine is found is aborted.
   No staged file is rewritten, the package and connect steps never start, no
   success response is sent, and once entry detection has run the launch
   request has its one error response and the session is shut down. *)
C11_NoEntryAborts ==
    NoEntryRoutine =>
        /\ NothingRewritten
        /\ "packaging" \notin Elements(steps)
        /\ "connect" \notin Elements(steps)
        /\ rokuAdapter = "undefined"
        /\ launchResponse # "ok"
        /\ pc \in {"staging", "findEntry", "failed"}
        /\ pc = "failed" =>
            /\ launchResponse = "error"
            /\ launchResponsesSent = 1
            /\ shutdownCalled

\* entry detection has failed for a launch with a user breakpoint to inject
C11_Witness ==
    /\ NoEntryRoutine
    /\ pc = "failed"
    /\ steps = <<"staging", "entry">>
    /\ LibPath \in Keys(breakpointsByClientPath)
    /\ Len(breakpointsByClientPath[LibPath]) > 0
    /\ staged[LibPath] = StagedCopy(launchArgs.rootDir, LibPath)

\* the launch has met a failure: a rejected step, or an error recorded by the
\* compile-errors or close handler before the launch was answered
LaunchFailure == pc = "failed" \/ (error # "none" /\ launchResponse # "ok")

(* C12 as stated: once a step of the launch has failed, or a compile error or
   a close has been reported during the launch, no later step of the pipeline
   is started. *)
C12_NoStepAfterFailure ==
    [][LaunchFailure => steps' = steps]_vars

\* what C12 says of the answer: a failed launch has exactly one response, the
\* error, and is shut down; no step was started twice or out of order
C12_Answer ==
    /\ launchResponsesSent <= 1
    /\ IsPrefix(steps, PipelineOrder)
    /\ pc = "failed" =>
        /\ launchResponse = "error"
        /\ launchResponsesSent = 1
        /\ shutdownCalled
    /\ launchResponse = "ok" => ~shutdownCalled /\ pc = "launched"

\* what C12 says of the steps, for the failures that reach the catch block
C12_Step ==
    /\ pc = "failed" =>
        /\ pc' = "failed"
        /\ steps' = steps
        /\ launchResponse' = launchResponse
        /\ launchResponsesSent' = launchResponsesSent
    /\ (launchResponse # "ok" /\ launchResponse' = "ok") =>
        /\ error = "none"
        /\ pc = "activating"
    /\ (error # "none" /\ launchResponse = "none" /\ launchResponse' # "none") =>
        launchResponse' = "error"

(* C12 amended: a launch that fails is answered with exactly one error
   response and no success response, is shut down, and starts no step twice.
   When an awaited step rejects, no later step is started.  A compile error or
   a close reported during the launch is only recorded: the steps still to come
   (activate after publish) are started, and the error response is sent when
   activate has resolved or a step has rejected. *)
C12_FailedLaunchAnsweredOnce ==
    [](C12_Answer) /\ [][C12_Step]_vars

\* a compile error was reported during publish, activate ran all the same, and
\* the launch was answered with the error
C12_Witness ==
    /\ pc = "failed"
    /\ error = "compile"
    /\ steps = PipelineOrder
    /\ launchResponse = "error"
    /\ launchResponsesSent = 1
    /\ shutdownCalled

\* an addBreakpointsToFile is reading or writing its file
InjectionInFlight == \E p \in ClientPaths : inj[p] \in {"reading", "writing"}

(* C13: the steps of a launch start in the order of the pipeline.  No
   injection starts before the staging folder is filled, and once packaging
   has started, so also while connect runs and ever after, every injection
   that was started has written its file and none is in flight. *)
C13_StepsInOrder ==
    /\ IsPrefix(steps, PipelineOrder)
    /\ "injection" \in Elements(steps) =>
        \A p \in ClientPaths : staged[p] # <<>>
    /\ "injection" \notin Elements(steps) => ~InjectionInFlight
    /\ "packaging" \in Elements(steps) =>
        /\ ~InjectionInFlight
        /\ \A p \in Keys(breakpointsByClientPath) :
            /\ inj[p] = "done"
            /\ staged[p] = InjectedFile(StagedCopy(launchArgs.rootDir, p),
                                        breakpointsByClientPath[p])
    /\ pc = "connecting" => "packaging" \in Elements(steps)

\* connect runs after the injection of two files
C13_Witness ==
    /\ pc = "connecting"
    /\ inj[MainPath] = "done"
    /\ inj[LibPath] = "done"
    /\ Len(breakpointsByClientPath[LibPath]) > 0

----------------------------------------------------------------------------
(* The session after the launch *)

\* the adapter emits close after the launch request was answered
ClosesAfterLaunch ==
    /\ pc = "launched"
    /\ closeEvents' = closeEvents + 1

(* C14: when the connection closes after the launch has completed, the close
   handler of the session sends a TerminatedEvent to the IDE or shuts the
   session down. *)
C14_CloseTerminates ==
    [][ClosesAfterLaunch =>
        \/ terminatedEvents' = terminatedEvents + 1
        \/ shutdownCalled']_vars

\* disconnectRequest has run to its end
DisconnectEnded == disconnectPc \in {"answered", "threw", "rejected"}

(* C15: a disconnect request that has run to its end has destroyed the adapter
   if there is one and has been answered with a response, also when the home
   signal failed and when no launch was requested before. *)
C15_DisconnectAnswered ==
    DisconnectEnded =>
        /\ disconnectResponses = 1
        /\ rokuAdapter # "undefined" => adapterDestroyed

(* C16: every runtime-error event of the device gives one StoppedEvent with
   reason exception once getThreads has answered, and no TerminatedEvent: the
   TerminatedEvents sent are exactly one per cannot-continue event. *)
C16_RuntimeErrorStops ==
    /\ exceptionStops + pendingRuntimeErrors = runtimeErrorEvents
    /\ terminatedEvents = cannotContinueEvents

\* a runtime error was reported as an exception stop, and then the device said
\* it cannot continue
C16_Witness ==
    /\ runtimeErrorEvents = 1
    /\ exceptionStops = 1
    /\ cannotContinueEvents = 1
    /\ terminatedEvents = 1

\* the adapter is there and the device is not at the debugger prompt
NotSuspended == rokuAdapter # "undefined" /\ ~isAtDebuggerPrompt

(* C20: a stackTrace request received while the adapter is there and the device
   is not at the debugger prompt is answered at once with no frames and
   totalFrames 0, and no getStackTrace query is sent to the device. *)
C20_EmptyStackTrace ==
    [][(NotSuspended /\ stackTraceRequests' = stackTraceRequests + 1) =>
        /\ stackTraceResponses' =
            Append(stackTraceResponses, [stackFrames |-> <<>>, totalFrames |-> 0])
        /\ stackTraceQueries' = stackTraceQueries
        /\ pendingStackTraces' = pendingStackTraces]_vars

\* connected and not at the prompt: a request was answered with no frames and
\* no query, after an earlier one at the prompt was answered with a frame
C20_Witness ==
    /\ rokuAdapter = "connected"
    /\ ~isAtDebuggerPrompt
    /\ stackTraceRequests = 2
    /\ stackTraceQueries = 1
    /\ Len(stackTraceResponses) = 2
    /\ stackTraceResponses[1].totalFrames = 1
    /\ stackTraceResponses[2] = [stackFrames |-> <<>>, totalFrames |-> 0]

----------------------------------------------------------------------------
(* The evaluation references *)

\* evaluateRequest for the expression is received at the debugger prompt
EvaluatedAtPrompt(expression) ==
    /\ rokuAdapter # "undefined"
    /\ isAtDebuggerPrompt
    /\ EvaluateRequest(expression)

\* the request is answered from this.variables, with no query to the device
ServedFromCache(expression) ==
    /\ EvaluatedAtPrompt(expression)
    /\ getVariableCalls' = getVariableCalls

(* C17: the cache of variables is cleared every time execution suspends, a
   suspension reported through a runtime error included, so a variable that an
   evaluate request is served from the cache was put there since the last
   StoppedEvent, of either reason, was sent. *)
C17_NoStaleVariableServed ==
    [][\A e \in Expressions :
        ServedFromCache(e) =>
            variables[evaluateRefIdLookup'[e]].stops = Stops]_vars

(* C18 as stated: immediately after a continue, step-over, step-in or step-out
   request has been forwarded, the cache of variables is empty. *)
C18_ResumeClears ==
    [][(\E c \in ResumeCommands : ResumeRequest(c)) =>
        variables' = NoVariables]_vars

(* C18 amended: a continue, step-over, step-in or step-out request is forwarded
   and leaves the cache of variables and the reference ids as they are; the
   cache is emptied when the handler of a suspend event sends its
   StoppedEvent. *)
C18_ClearedAtNextStop ==
    [][/\ (\E c \in ResumeCommands : ResumeRequest(c)) =>
            /\ resumesForwarded' = resumesForwarded + 1
            /\ variables' = variables
            /\ evaluateRefIdLookup' = evaluateRefIdLookup
       /\ stoppedEvents' = stoppedEvents + 1 => variables' = NoVariables]_vars

\* a cached variable has outlived a continue or step request
C18_Witness ==
    /\ resumesForwarded > 0
    /\ stoppedEvents > 0
    /\ \E r \in DOMAIN variables : variables[r].stops = Stops
    /\ \E e \in DOMAIN lastAnswer :
        /\ lastAnswer[e].ref > 0
        /\ lastAnswer[e].resumes < resumesForwarded

\* the expression was answered for earlier in this suspension: no StoppedEvent
\* was sent and no continue or step request was forwarded since
AnsweredInThisSuspension(expression) ==
    /\ expression \in DOMAIN lastAnswer
    /\ lastAnswer[expression].ref >= 0
    /\ lastAnswer[expression].stops = Stops
    /\ lastAnswer[expression].resumes = resumesForwarded
    /\ pendingEvaluates = <<>>

(* C19 as stated: an evaluate request for an expression that was answered for
   earlier in the same suspension gets the same reference id and sends no
   getVariable query, whatever the kind of the result. *)
C19_SecondRequestCached ==
    [][\A e \in Expressions :
        (EvaluatedAtPrompt(e) /\ AnsweredInThisSuspension(e)) =>
            /\ getVariableCalls' = getVariableCalls
            /\ lastAnswer'[e].ref = lastAnswer[e].ref]_vars

(* C19 amended: an evaluate request for an expression that was answered for
   earlier in the same suspension with an array or an object (a result with a
   reference id) gets the same reference id and sends no getVariable query.  A
   primitive, uninitialized or function result is not cached: the request
   sends a new query. *)
C19_SecondRequestCachedForContainers ==
    [][\A e \in Expressions :
        (EvaluatedAtPrompt(e) /\ AnsweredInThisSuspension(e)) =>
            IF lastAnswer[e].ref > 0
            THEN /\ getVariableCalls' = getVariableCalls
                 /\ lastAnswer'[e].ref = lastAnswer[e].ref
                 /\ lastAnswer'[e].stops = lastAnswer[e].stops
            ELSE /\ getVariableCalls' = getVariableCalls + 1
                 /\ pendingEvaluates' = <<Waiting(e)>>]_vars

\* two requests for one expression in one suspension, the second answered from
\* the cache: two requests, one query, the reference id of the first
C19_Witness ==
    \E e \in DOMAIN lastAnswer :
        /\ evaluateRequests = 2
        /\ getVariableCalls = 1
        /\ pendingEvaluates = <<>>
        /\ DOMAIN lastAnswer = {e}
        /\ lastAnswer[e].ref > 0
        /\ lastAnswer[e].ref = evaluateRefIdLookup[e]
        /\ lastAnswer[e].stops = Stops
        /\ lastAnswer[e].resumes = resumesForwarded
        /\ Stops > 0

----------------------------------------------------------------------------
(* Requests away from the debugger prompt *)

\* the device is not suspended: there is no adapter yet, or it is not at the
\* debugger prompt
NotAtPrompt == rokuAdapter = "undefined" \/ ~isAtDebuggerPrompt

(* C21: a stackTrace request received in a state other than Suspended, before
   the adapter exists included, is answered at once with an empty result. *)
C21_AnsweredWhenNotSuspended ==
    [][(NotAtPrompt /\ stackTraceRequests' = stackTraceRequests + 1) =>
        /\ Len(stackTraceResponses') = Len(stackTraceResponses) + 1
        /\ stackTraceResponses'[Len(stackTraceResponses')].totalFrames = 0]_vars

(* C28: once the entry breakpoint is merged, so when the lists are used for
   the injection and for the line correction, every list of the store is
   ordered by line ascending. *)
C28_ListsSorted ==
    Merged => \A p \in Keys(breakpointsByClientPath) :
                SortedByLine(breakpointsByClientPath[p])

(* C30: a device response writes into the evaluation-reference table (the
   reference ids and the cached variables) only in the suspension in which
   its request was issued: no continue or step request has been forwarded
   between the request and the write. *)
C30_WrittenInIssuingSuspension ==
    [][(pendingEvaluates # <<>> /\ pendingEvaluates' = Tail(pendingEvaluates)
        /\ (variables' # variables
            \/ evaluateRefIdLookup' # evaluateRefIdLookup)) =>
            Head(pendingEvaluates).resumes = resumesForwarded]_vars

----------------------------------------------------------------------------
(* The entry routine *)

RunUserInterfaceTerm == "sub RunUserInterface\\("
MainTerm == "sub main\\("

\* the files of a project that declare the routine of a term
Declaring(proj, term) ==
    {p \in {MainPath, LibPath} :
        \E i \in 1..Len(FileLines(proj, p)) : MatchesTerm(term, FileLines(proj, p)[i])}

\* the first line of a file that declares the routine of a term
DeclarationLine(proj, path, term) ==
    CHOOSE i \in 1..Len(FileLines(proj, path)) :
        /\ MatchesTerm(term, FileLines(proj, path)[i])
        /\ \A j \in 1..(i - 1) : ~MatchesTerm(term, FileLines(proj, path)[j])

\* the step of addEntryBreakpoint that merges the entry breakpoint
EntryMerged == pc = "findEntry" /\ pc' = "injecting"

\* both routines are declared, RunUserInterface in one file
BothDeclared(proj) ==
    /\ Cardinality(Declaring(proj, RunUserInterfaceTerm)) = 1
    /\ Declaring(proj, MainTerm) # {}

(* C23: for a project that declares both entry routines (RunUserInterface in
   one file, main in the same file or in others), addEntryBreakpoint selects
   the same file and the same line in whatever order findInFiles reports the
   files: the store and the entry breakpoint after the step are those that
   every order leads to. *)
C23_EntryDeterministic ==
    [][(EntryMerged /\ BothDeclared(launchArgs.rootDir)) =>
        \A files \in FileOrders :
            LET results == EntryResultsIn(launchArgs.rootDir, files)
                entryPath == results[1].path
                lineNumber == EntryLineNumber(
                    FileLines(launchArgs.rootDir, entryPath), results[1].line[1])
                merged == MergeEntryBreakpoint(
                    breakpointsByClientPath, breakpointIdCounter, entryPath, lineNumber)
            IN /\ breakpointsByClientPath' = merged.store
               /\ entryBreakpoint' = merged.entryBreakpoint]_vars

\* the entry breakpoint of a project with both routines in one file, and of one
\* with the routines in two files
C23_Witness ==
    /\ pc = "injecting"
    /\ launchArgs.rootDir \in {"both", "split"}
    /\ entryBreakpoint # Undefined
    /\ \E p \in Keys(breakpointsByClientPath) :
          \E i \in 1..Len(breakpointsByClientPath[p]) :
              breakpointsByClientPath[p][i] = entryBreakpoint

\* the file of the entry routine: the one that declares RunUserInterface, or
\* else the one that declares main
EntryFileOf(proj) ==
    IF Declaring(proj, RunUserInterfaceTerm) # {}
    THEN CHOOSE p \in Declaring(proj, RunUserInterfaceTerm) : TRUE
    ELSE CHOOSE p \in Declaring(proj, MainTerm) : TRUE

\* the declaration the entry breakpoint follows: main's where the entry file
\* declares main, else RunUserInterface's
EntryDeclarationLine(proj) ==
    LET p == EntryFileOf(proj)
    IN IF p \in Declaring(proj, MainTerm)
       THEN DeclarationLine(proj, p, MainTerm)
       ELSE DeclarationLine(proj, p, RunUserInterfaceTerm)

\* one file declares the entry routine
OneEntryFile(proj) ==
    IF Declaring(proj, RunUserInterfaceTerm) # {}
    THEN Cardinality(Declaring(proj, RunUserInterfaceTerm)) = 1
    ELSE Cardinality(Declaring(proj, MainTerm)) = 1

(* C29: the entry breakpoint that addEntryBreakpoint creates is on the line
   after the declaration line of the entry routine, in the file of that
   routine, and never on the declaration line. *)
C29_EntryAfterDeclaration ==
    [][(EntryMerged /\ OneEntryFile(launchArgs.rootDir)
        /\ entryBreakpoint' # Undefined) =>
        LET proj == launchArgs.rootDir
            p == EntryFileOf(proj)
        IN /\ entryBreakpoint'.line = EntryDeclarationLine(proj) + 1
           /\ p \in Keys(breakpointsByClientPath')
           /\ \E i \in 1..Len(breakpointsByClientPath'[p]) :
                 breakpointsByClientPath'[p][i] = entryBreakpoint'
           /\ \A q \in Keys(breakpointsByClientPath') :
                 \A i \in 1..Len(breakpointsByClientPath'[q]) :
                     breakpointsByClientPath'[q][i].isEntryBreakpoint =>
                         /\ q = p
                         /\ breakpointsByClientPath'[q][i].line
                                # EntryDeclarationLine(proj)]_vars

\* an entry breakpoint after a declaration that is not the first line of its
\* file, with a user breakpoint on the declaration line
C29_Witness ==
    /\ pc = "injecting"
    /\ launchArgs.rootDir = "split"
    /\ entryBreakpoint # Undefined
    /\ entryBreakpoint.line = 3
    /\ LibPath \in Keys(breakpointsByClientPath)
    /\ \E i \in 1..Len(breakpointsByClientPath[LibPath]) :
          /\ breakpointsByClientPath[LibPath][i].line = 2
          /\ ~breakpointsByClientPath[LibPath][i].isEntryBreakpoint

----------------------------------------------------------------------------
(* The keys of the store and the folders of the launch *)

\* a step of convertBreakpointPaths
Rekeyed ==
    /\ \/ pc = "staging" /\ pc' = "findEntry"
       \/ pc = "rekeying" /\ pc' = "packaging"
    /\ launchArgs.debugRootDir # <<>>

(* C26: convertBreakpointPaths loses no breakpoints: every list of the store
   before the call is in the store after it, under some key. *)
C26_NoListLost ==
    [][Rekeyed =>
        \A k \in Keys(breakpointsByClientPath) :
            \E q \in Keys(breakpointsByClientPath') :
                breakpointsByClientPath'[q] = breakpointsByClientPath[k]]_vars

\* the launch has converted the keys back
Restored == pc \in {"packaging", "connecting", "publishing", "activating", "launched"}

\* a debug root distinct from the build root is configured
DebugRootConfigured ==
    /\ launchArgs.debugRootDir # <<>>
    /\ launchArgs.debugRootDir # launchArgs.rootDir

(* C25: with a debug root distinct from the build root, the two conversions of
   the launch restore the store: every path that was a key before the launch
   is a key afterwards, with the same breakpoints, the entry breakpoint aside. *)
C25_StoreRestored ==
    (Restored /\ DebugRootConfigured) =>
        \A k \in Keys(storeAtLaunch) :
            /\ k \in Keys(breakpointsByClientPath)
            /\ UserBreakpoints(breakpointsByClientPath[k]) = storeAtLaunch[k]


\* a path inside a folder
Under(p, folder) ==
    /\ Len(p) > Len(folder) + 1
    /\ SubSeq(p, 1, Len(folder) + 1) = folder \o <<Sep>>

\* neither root is inside the other
RootsApart ==
    /\ ~Under(launchArgs.rootDir, launchArgs.debugRootDir)
    /\ ~Under(launchArgs.debugRootDir, launchArgs.rootDir)

\* every path stored before the launch is under the debug root
StoredUnderDebugRoot ==
    \A k \in Keys(storeAtLaunch) : Under(k, launchArgs.debugRootDir)

\* what does hold of the two conversions: with roots that are not nested and a
\* store whose paths are all under the debug root, the store is restored, and
\* the entry breakpoint is under the entry file's path in the debug root
StoreRestoredUnderDebugRoot ==
    (Restored /\ DebugRootConfigured /\ RootsApart /\ StoredUnderDebugRoot) =>
        /\ \A k \in Keys(storeAtLaunch) :
              /\ k \in Keys(breakpointsByClientPath)
              /\ UserBreakpoints(breakpointsByClientPath[k]) = storeAtLaunch[k]
        /\ \A k \in Keys(breakpointsByClientPath) :
              \/ k \in Keys(storeAtLaunch)
              \/ k = join(launchArgs.debugRootDir, EntryRelativePath)
        /\ LET entryPath == join(launchArgs.debugRootDir, EntryRelativePath)
           IN /\ entryPath \in Keys(breakpointsByClientPath)
              /\ \E i \in 1..Len(breakpointsByClientPath[entryPath]) :
                    breakpointsByClientPath[entryPath][i] = entryBreakpoint

\* the path of a staged file relative to the staging folder
RelativeToStaging(file) == substring(file, Len(StagingFolder) + 1)

\* the key under which line correction looks for the breakpoints of a staged file
ClientPathOf(file) ==
    convertDebuggerPathToClient(stagingDirPaths, launchArgs,
                                DevicePath(RelativeToStaging(file)))

(* C27: after a successful launch, the breakpoints written into a staged file
   are stored under the client path that convertDebuggerPathToClient returns
   for the device path of that file. *)
C27_KeysMatchClientPaths ==
    pc = "launched" =>
        \A w \in writtenFiles :
            /\ ClientPathOf(w.file) \in Keys(breakpointsByClientPath)
            /\ breakpointsByClientPath[ClientPathOf(w.file)] = w.breakpoints


\* the launches in which the conversions of the keys meet no other key: no
\* debug root and every stored path under the project root, or roots that are
\* not nested and every stored path under the debug root
PlainFolders ==
    IF launchArgs.debugRootDir = <<>>
    THEN \A k \in Keys(storeAtLaunch) : Under(k, launchArgs.rootDir)
    ELSE DebugRootConfigured /\ RootsApart /\ StoredUnderDebugRoot

\* what does hold of the keys: in a launch with plain folders every staged file that
\* was written has its breakpoints under the client path of its device path
KeysMatchClientPathsInPlainFolders ==
    (pc = "launched" /\ PlainFolders) =>
        /\ writtenFiles # {}
        /\ \A w \in writtenFiles :
              /\ ClientPathOf(w.file) \in Keys(breakpointsByClientPath)
              /\ breakpointsByClientPath[ClientPathOf(w.file)] = w.breakpoints
        /\ \A k \in Keys(breakpointsByClientPath) :
              \E w \in writtenFiles : ClientPathOf(w.file) = k


----------------------------------------------------------------------------
(* Truncated device paths and the staged files *)

\* the last conversion was of a truncated path
TruncatedConverted ==
    /\ lastConversion # <<>>
    /\ Head(lastConversion.debuggerPath) = TruncationMarker

\* the root convertDebuggerPathToClient joins to
ClientRoot ==
    IF launchArgs.debugRootDir # <<>> THEN launchArgs.debugRootDir
    ELSE launchArgs.rootDir

\* the staged paths that end with the suffix of the last conversion
Candidates ==
    {f \in Range(stagingDirPaths) :
        endsWith(f, substring(lastConversion.debuggerPath, 1))}

(* C22: for a truncated device path, if one staged path ends with the suffix
   the client path is built from that staged path; if none or several do, it
   is built from the suffix and from no candidate other than the suffix. *)
C22_TruncatedPathResolved ==
    TruncatedConverted =>
        LET suffix == substring(lastConversion.debuggerPath, 1)
        IN IF Cardinality(Candidates) = 1
           THEN \E f \in Candidates :
                    lastConversion.clientPath = normalize(join(ClientRoot, f))
           ELSE /\ lastConversion.clientPath = normalize(join(ClientRoot, suffix))
                /\ \A f \in Candidates :
                      f # suffix =>
                        lastConversion.clientPath # normalize(join(ClientRoot, f))

\* a suffix that one staged path ends with, resolved to a longer path
C22_Witness ==
    /\ TruncatedConverted
    /\ Cardinality(Candidates) = 1
    /\ \E f \in Candidates : Len(f) > Len(substring(lastConversion.debuggerPath, 1))

(* C24: the files addBreakpointStatements writes are inside the staging folder,
   whatever paths the store holds, and none of them is a file the IDE can
   open. *)
C24_WritesInsideStaging ==
    \A w \in writtenFiles :
        /\ Under(w.file, StagingFolder)
        /\ Up \notin Range(w.file)
        /\ \A s \in SourcePaths : w.file # normalize(s)

\* files were written in a launch whose store held a path outside the project
\* root
C24_Witness ==
    /\ writtenFiles # {}
    /\ launchArgs.debugRootDir = <<>>
    /\ \E k \in Keys(storeAtLaunch) : ~Under(k, launchArgs.rootDir)
    /\ \E k \in Keys(storeAtLaunch) : Under(k, launchArgs.rootDir)

----------------------------------------------------------------------------
(* The device halted at a STOP line *)

\* the line of the staged file at which the device halts for the breakpoint on
\* client line b: the STOP line put immediately before the line carrying b
HaltLineOf(file, b) == DeviceLineOf(file, b) - 1

(* C33: once the STOP lines are injected, the device line of the STOP line
   itself, where the device halts for a breakpoint on client line b, is
   translated by convertDebuggerLineToClientLine to b, and the result is never
   less than 1. *)
C33_HaltLineTranslated ==
    \A p \in ClientPaths : Injected(p) =>
        \A b \in LinesOf(breakpointsByClientPath[p]) \cap 1..Len(SourceLines(p)) :
            LET d == HaltLineOf(staged[p], b)
                c == convertDebuggerLineToClientLine(breakpointsByClientPath, p, d)
            IN (d >= 1 /\ staged[p][d] = StopLine) => (c = b /\ c >= 1)

----------------------------------------------------------------------------
(* The order of the breakpoints in the injection *)

\* the list taken in the order f, a permutation of its indexes
Reordered(list, f) == [i \in 1..Len(list) |-> list[f[i]]]

(* C34: the content written for a file by the injection does not depend on the
   order in which the loop takes the file's breakpoints: every permutation of
   the stored list gives the staged file that was written. *)
C34_OrderIndependent ==
    \A p \in ClientPaths : Injected(p) =>
        \A f \in Permutations(1..Len(breakpointsByClientPath[p])) :
            InjectedFile(StagedCopy(launchArgs.rootDir, p),
                         Reordered(breakpointsByClientPath[p], f)) = staged[p]

\* a file was rewritten for a list stored with its later line first: the loop
\* took the breakpoints in descending order and both STOP lines are in the file
C34_Witness ==
    \E p \in ClientPaths :
        LET list == breakpointsByClientPath[p]
        IN /\ Injected(p)
           /\ Len(list) = 2
           /\ list[1].line > list[2].line
           /\ staged[p][HaltLineOf(staged[p], list[1].line)] = StopLine
           /\ staged[p][HaltLineOf(staged[p], list[2].line)] = StopLine

----------------------------------------------------------------------------
(* The suspend handlers *)

\* a suspend handler runs on from its getThreads query to its end
HandlerRuns == handledSuspends' = handledSuspends + 1

(* C35: at most one suspend is resumed by the session itself: whatever the
   interleaving of the suspend events and the answers to their getThreads
   queries, the session never sends more than one continue of its own, only
   the handler that runs on first can send it, and every handler that runs on
   later sends a StoppedEvent to the IDE. *)
C35_OneAutoResume ==
    [][/\ continuesSent' <= 1
       /\ (HandlerRuns /\ continuesSent' = continuesSent + 1) => handledSuspends = 0
       /\ (HandlerRuns /\ handledSuspends >= 1) =>
            /\ continuesSent' = continuesSent
            /\ stoppedEvents' = stoppedEvents + 1]_vars

\* every suspend handler has run, the first resumed the device and each of the
\* others sent a StoppedEvent
C35_Witness ==
    /\ suspendEvents = MaxSuspends
    /\ pendingSuspends = 0
    /\ ~firstSuspend
    /\ continuesSent = 1
    /\ stoppedEvents = MaxSuspends - 1

----------------------------------------------------------------------------
(* The threads requests *)

(* C38: every threads request is eventually answered: one received before the
   adapter is connected is answered once the launch has finished, whether the
   connection succeeded or the launch failed. *)
C38_ThreadsAnswered ==
    \A n \in 1..MaxRequests : (threadsRequests >= n) ~> (threadsResponses >= n)

\* what does hold: once the adapter is connected every threads request is
\* eventually answered
ThreadsAnsweredOnceConnected ==
    \A n \in 1..MaxRequests :
        (threadsRequests >= n /\ AdapterLoaded) ~> (threadsResponses >= n)

----------------------------------------------------------------------------
(* The debug console *)

\* the expressions of ReplExpressions that are commands of the device's
\* debugger once they are trimmed and put in lower case: cont, c, step, th
FlowCommandsTyped ==
    {<<"c", "o", "n", "t">>, <<" ", "C", " ">>, <<"S", "t", "e", "p">>,
     <<"t", "h", " ">>}

\* a request of the console for a flow-control command is received
FlowCommandRequested ==
    \E e \in FlowCommandsTyped : EvaluateReplRequest(e)

\* nothing is sent to the device
NotForwarded ==
    /\ replEvaluates' = replEvaluates
    /\ pendingRepl' = pendingRepl
    /\ getVariableCalls' = getVariableCalls
    /\ pendingEvaluates' = pendingEvaluates

(* C40 as stated: an evaluate request of the console whose expression is a
   flow-control command of the device, whatever its case and the blanks around
   it, is not forwarded to the device (no evaluate and no getVariable call), an
   OutputEvent is sent and the request is answered. *)
C40_FlowCommandsRefused ==
    [][FlowCommandRequested =>
        /\ NotForwarded
        /\ outputEvents' = outputEvents + 1
        /\ replResponses' = replResponses + 1]_vars

(* C40 amended: an evaluate request of the console whose expression is a
   flow-control command of the device, whatever its case and the blanks around
   it, is never forwarded to the device.  At the debugger prompt an OutputEvent
   is sent and the request is answered; away from the prompt the request is
   answered and no OutputEvent is sent; before the adapter exists the request
   is not answered and no OutputEvent is sent. *)
C40_FlowCommandsNotForwarded ==
    [][FlowCommandRequested =>
        /\ NotForwarded
        /\ IF rokuAdapter = "undefined"
           THEN /\ outputEvents' = outputEvents
                /\ replResponses' = replResponses
           ELSE /\ outputEvents' =
                        outputEvents + (IF isAtDebuggerPrompt THEN 1 ELSE 0)
                /\ replResponses' = replResponses + 1]_vars

\* at the prompt, one request of the console was refused with an OutputEvent
\* and another was passed to the device and answered
C40_Witness ==
    /\ isAtDebuggerPrompt
    /\ evaluateRequests = 2
    /\ outputEvents = 1
    /\ replEvaluates = 1
    /\ pendingRepl = 0
    /\ replResponses = 2

----------------------------------------------------------------------------
(* The reference ids *)

\* getEvaluateRefId called for e1, then e2, then e1 again, from the lookup and
\* the counter given: every id is a number from 1 up, e1 gets the same id
\* twice, and e2 gets another id if it is another expression
OneToOne(lookup, counter, names) ==
    \A e1, e2 \in names :
        LET g1 == getEvaluateRefId(lookup, counter, e1)
            g2 == getEvaluateRefId(g1.lookup, g1.counter, e2)
            g3 == getEvaluateRefId(g2.lookup, g2.counter, e1)
        IN /\ g1.refId >= 1
           /\ g2.refId >= 1
           /\ g3.refId = g1.refId
           /\ e1 # e2 => g2.refId # g1.refId

\* an id that was handed out stays with its expression
IdsKept ==
    \A e \in DOMAIN evaluateRefIdLookup :
        /\ e \in DOMAIN evaluateRefIdLookup'
        /\ evaluateRefIdLookup'[e] = evaluateRefIdLookup[e]

(* C39: reference ids identify expressions one-to-one for the whole session:
   in every state getEvaluateRefId gives the same id each time it is called
   for the same expression and different ids for different expressions, every
   id is at least 1, and no step of the session changes an id handed out. *)
C39_RefIdsOneToOne ==
    [][/\ IdsKept
       /\ OneToOne(evaluateRefIdLookup, evaluateRefIdCounter, AllExpressions)
       /\ OneToOne(evaluateRefIdLookup', evaluateRefIdCounter', AllExpressions)]_vars

\* what does hold: the same for expressions that are not the name of a member
\* the lookup inherits
RefIdsOneToOneForOwnNames ==
    [][/\ IdsKept
       /\ OneToOne(evaluateRefIdLookup, evaluateRefIdCounter, Expressions)
       /\ OneToOne(evaluateRefIdLookup', evaluateRefIdCounter', Expressions)]_vars

----------------------------------------------------------------------------
(* The variables requests *)

\* a variables request for the reference id is received at the debugger prompt
VariablesRequested(ref) ==
    /\ rokuAdapter # "undefined"
    /\ isAtDebuggerPrompt
    /\ VariablesRequest(ref)

\* the responses sent at the prompt for the reference id since the last
\* StoppedEvent
AnswersInThisSuspension(ref) ==
    {i \in 1..Len(variablesResponses) :
        /\ variablesResponses[i].ref = ref
        /\ variablesResponses[i].prompt
        /\ variablesResponses[i].stops = Stops}

\* the response just sent
LastResponse == variablesResponses'[Len(variablesResponses')]

\* the request is answered at once with the child variables given
AnsweredWith(childVariables) ==
    /\ Len(variablesResponses') = Len(variablesResponses) + 1
    /\ LastResponse.variables = childVariables
    /\ getVariableCalls' = getVariableCalls
    /\ pendingVariables' = pendingVariables

\* the request sends one getVariable query and waits for its answer
Queried ==
    /\ getVariableCalls' = getVariableCalls + 1
    /\ Len(pendingVariables') = Len(pendingVariables) + 1
    /\ variablesResponses' = variablesResponses

(* C32 as stated: the children of a cached variable are loaded at most once
   per suspension: a variables request for a reference id whose variable holds
   no children and that was not answered for in this suspension sends one
   getVariable query, and a request for a reference id that was answered for
   in this suspension sends no query and gets the same children, also when the
   variable has no children. *)
C32_ChildrenLoadedOnce ==
    [][\A ref \in HandedOut :
        (VariablesRequested(ref) /\ ref \in DOMAIN variables) =>
            IF AnswersInThisSuspension(ref) # {}
            THEN \A i \in AnswersInThisSuspension(ref) :
                    AnsweredWith(variablesResponses[i].variables)
            ELSE ChildrenLoaded(variables[ref]) \/ Queried]_vars

(* C32 amended: a variables request at the debugger prompt for a cached
   variable that holds child variables is answered with them and sends no
   query; for a cached variable that holds none, because they were not loaded
   or because it has none, it sends one getVariable query, and the answer to
   the query is sent as the children and is what the cache then holds.  So a
   variable with children is queried at most once per suspension, and one
   without children at every request. *)
C32_ChildrenLoadedWhenNone ==
    [][/\ \A ref \in HandedOut :
            (VariablesRequested(ref) /\ ref \in DOMAIN variables) =>
                IF variables[ref].childVariables # <<>>
                THEN AnsweredWith(variables[ref].childVariables)
                ELSE Queried
       /\ (pendingVariables # <<>> /\ pendingVariables' = Tail(pendingVariables)) =>
            /\ Len(variablesResponses') = Len(variablesResponses) + 1
            /\ LastResponse.ref = Head(pendingVariables).ref
            /\ LastResponse.variables =
                    variables'[Head(pendingVariables).ref].childVariables
            /\ getVariableCalls' = getVariableCalls]_vars

\* in one suspension an array without elements was asked for twice and queried
\* twice, after the query of the evaluate request that cached it
C32_Witness ==
    /\ Len(variablesResponses) = 2
    /\ variablesResponses[1] = variablesResponses[2]
    /\ variablesResponses[1].prompt
    /\ variablesResponses[1].variables = <<>>
    /\ variablesResponses[1].stops = Stops
    /\ variablesResponses[1].ref \in DOMAIN variables
    /\ getVariableCalls = 3
    /\ pendingVariables = <<>>


\* the reference ids the IDE was sent in the response to an evaluate request
SentToIde == {lastAnswer[e].ref : e \in DOMAIN lastAnswer} \cap HandedOut

(* C37: a variables request received at the debugger prompt for a reference
   id the IDE was sent always gets a response, at once or when its getVariable
   query is answered, and a request whose reference id is not in the variable
   cache is answered at once with an empty variable list. *)
C37_VariablesAnswered ==
    [][\A ref \in SentToIde :
        VariablesRequested(ref) =>
            /\ \/ Len(variablesResponses') = Len(variablesResponses) + 1
               \/ Len(pendingVariables') = Len(pendingVariables) + 1
            /\ ref \notin DOMAIN variables => AnsweredWith(<<>>)]_vars

\* a variables request at the debugger prompt for a cached variable gets a
\* response, at once or when its getVariable query is answered
VariablesAnsweredWhenCached ==
    [][\A ref \in HandedOut :
        (VariablesRequested(ref) /\ ref \in DOMAIN variables) =>
            \/ Len(variablesResponses') = Len(variablesResponses) + 1
            \/ Len(pendingVariables') = Len(pendingVariables) + 1]_vars


\* the expressions of the evaluate requests that wait for getVariable
PendingExpressions ==
    {pendingEvaluates[i].expression : i \in 1..Len(pendingEvaluates)}

(* C31: of two evaluate requests for one expression that are in flight
   together, the first fills the variable cache and the later is served from
   it: an evaluate request at the debugger prompt for an expression that a
   request is waiting for sends no getVariable query, and the answer to a
   request whose reference id is in the cache leaves the cached variable as it
   is. *)
C31_FirstRequesterPopulates ==
    [][/\ \A e \in PendingExpressions :
            (rokuAdapter # "undefined" /\ isAtDebuggerPrompt /\ EvaluateRequest(e))
                => getVariableCalls' = getVariableCalls
       /\ (pendingEvaluates # <<>> /\ pendingEvaluates' = Tail(pendingEvaluates)) =>
            LET ref == evaluateRefIdLookup[Head(pendingEvaluates).expression]
            IN  ref \in DOMAIN variables => variables'[ref] = variables[ref]]_vars


----------------------------------------------------------------------------
(* The stops sent to the IDE *)

\* the handler that runs on is that of the entry stop the session resumes by
\* itself: the first to run on, with an entry breakpoint recorded and
\* stopOnEntry false
AutoResumed ==
    /\ firstSuspend
    /\ entryBreakpoint # Undefined
    /\ ~launchArgs.stopOnEntry

(* C36: every suspend whose handler is not that of the auto-resumed entry stop
   sends exactly one StoppedEvent to the IDE and no continue, with the variable
   cache empty when the event is sent; the auto-resumed one sends a continue
   and no event and leaves the cache alone; nothing else sends a StoppedEvent
   here.  So the first suspend is sent to the IDE when stopOnEntry is true or
   when no entry breakpoint is recorded. *)
C36_StopsSurfaced ==
    [][/\ HandlerRuns =>
            IF AutoResumed
            THEN /\ stoppedEvents' = stoppedEvents
                 /\ continuesSent' = continuesSent + 1
                 /\ variables' = variables
            ELSE /\ stoppedEvents' = stoppedEvents + 1
                 /\ continuesSent' = continuesSent
                 /\ DOMAIN variables' = {}
       /\ (HandlerRuns /\ firstSuspend
                /\ (launchArgs.stopOnEntry \/ entryBreakpoint = Undefined)) =>
            stoppedEvents' = stoppedEvents + 1
       /\ stoppedEvents' # stoppedEvents => HandlerRuns]_vars

\* with stopOnEntry false and no entry breakpoint recorded every suspend was
\* sent to the IDE, the first too, and the last of them emptied a cache that
\* held the variable of an evaluate request answered since the stop before
C36_Witness ==
    /\ ~launchArgs.stopOnEntry
    /\ entryBreakpoint = Undefined
    /\ suspendEvents = MaxSuspends
    /\ pendingSuspends = 0
    /\ stoppedEvents = MaxSuspends
    /\ continuesSent = 0
    /\ "x" \in DOMAIN lastAnswer
    /\ lastAnswer["x"].ref >= 1
    /\ lastAnswer["x"].stops = MaxSuspends - 1
    /\ DOMAIN variables = {}

====
